---- MODULE Spec2Model ----
(***************************************************************************)
(* Model of the benchmark execution engine of openui_eval.                 *)
(*                                                                         *)
(*   Spec     ModelManager (src/models/model_manager.py): load_model,      *)
(*            generate, unload_model, cleanup over the configured models.  *)
(*   SpecGen  HTMLGenerator.generate_complete_task                         *)
(*            (src/generation/html_generator.py) driving the manager.     *)
(*   SpecRun  BenchmarkPipeline.run_full_pipeline, and the phase calls of  *)
(*            main.py,                                                     *)
(*            (src/pipeline/benchmark_pipeline.py): setup, the generation  *)
(*            and evaluation phases over the (model, task) matrix with     *)
(*            Judge.evaluate_all_iterations, the summary and the cleanup.  *)
(*   SpecJudge    Judge.evaluate_all_iterations (src/evaluation/judge.py)  *)
(*            as a unit, over a manager object that has or lacks a client. *)
(*   SpecSummary  Judge.create_task_summary as a unit over lists of        *)
(*            evaluation records.                                          *)
(*   SpecExtract  HTMLProcessor.extract_html                               *)
(*            (src/generation/html_processor.py) as a unit over texts.     *)
(*   SpecProject  ProjectGenerator (src/generation/project_generator.py)   *)
(*            and NodeProjectRenderer.render_project                       *)
(*            (src/rendering/node_renderer.py) with ProjectManager's       *)
(*            development servers, as a unit over responses.               *)
(*                                                                         *)
(* Telemetry that no decision of the code reads (memory_usage_mb,          *)
(* load_time, total_calls, total_duration) is left out of ModelState.      *)
(* time.time() is a logical clock that advances at every reading that is   *)
(* stored in last_used.                                                    *)
(***************************************************************************)
EXTENDS Integers, Sequences, FiniteSets, TLC

\* ------------------------------------------------------------------ bounds
MaxCapacity == 3
MaxClock == 4
max_retries == 2
MaxErrors == max_retries
MaxTurns == 2
MaxIterations == 3
MaxRecords == 4
MaxLen == 4
MaxBlocks == 2

\* The configured models (ModelManager.models keys).
Models == {"A", "B", "C", "D"}

\* Environment of the manager runs: the models whose backend can fail or be
\* unavailable, and the models called with use_conversation_history.
Flaky == {"A"}
Conversing == {"A", "B"}

VARIABLES
    max_concurrent_models,  \* ModelManager.max_concurrent_models
    loaded_models,          \* ModelManager.loaded_models
    model_states,           \* ModelManager.model_states: name -> ModelState
    conversation_history,   \* client.conversation_history: name -> turns
    clock,                  \* last value read from time.time()
    last,                   \* observation of the last manager operation
    gen_pc,         \* generate_complete_task: "idle", "running", "returned"
                    \* or "raised"
    task,           \* the task being generated
    iterations,     \* the iterations argument (N)
    renderer,       \* whether a renderer was passed
    iteration,      \* the loop variable
    results,        \* the results list
    current_html,   \* current_html
    html_files,     \* iterations whose v<k>.html exists in task_dir
    gen_ret,        \* the list returned to the caller
    tasks_started,  \* number of generate_complete_task calls so far
    gen_obs,        \* observation of the run: what went wrong and, per
                    \* round, whether a response came and which one
    gen_results,    \* run_generation_phase: generation_results[model_name]
                    \* at the task under generation
    caller_pc,      \* run_generation_phase around the call: "idle",
                    \* "calling" or "recorded"
    run_pc,         \* run_full_pipeline: "idle", "generation", "evaluation",
                    \* "summary", "cleanup", "finally" or "exited";
                    \* "aborted" after a phase that main() called directly
    mode,           \* config.mode
    clients,        \* ModelManager.clients: the providers with a client
    built,          \* the components _setup_components has constructed
    config_iterations,  \* config.iterations
    generation_results, \* (model, task) -> the entry of the phase's dict
    evaluation_results, \* (model, task) -> the entry of the phase's dict
    cursor,         \* position of the running phase in the matrix
    shutdowns,      \* number of cleanup() calls made on each component
    driver,         \* WebRenderer.driver is set
    run_error,      \* the first exception raised inside the try block
    run_outcome,    \* what run_full_pipeline did: "", "returned", or the
                    \* error it raised
    run_obs,        \* observation of the run: pairs whose call failed and
                    \* whether a cleanup step failed
    last_eval,      \* observation of the last evaluate_all_iterations call
    total_operations,       \* BenchmarkPipeline.total_operations
    completed_operations,   \* BenchmarkPipeline.completed_operations
    jd_pc,          \* a Judge: "none", "idle", "looping" or "returned"
    manager_client, \* the manager object given to the Judge has an
                    \* attribute named client
    jd_call,        \* the arguments of the evaluate_all_iterations call
    jd_pos,         \* position of its nested loops
    all_evaluations,    \* all_evaluations
    eval_files,     \* the evaluation files that exist on disk
    jd_sent,        \* the requests sent to judges so far, with the arguments
                    \* of the evaluate_html call that sent each
    last_judging,   \* observation of the last evaluate_html call
    jd_calls,       \* number of evaluate_all_iterations calls so far
    sm_pc,          \* create_task_summary: "idle", "returned" or "raised"
    evaluations,    \* its evaluations argument
    summary,        \* the TaskEvaluationSummary it built
    ex_pc,          \* extract_html: "idle" or "returned"
    response_text,  \* its text argument
    html_out,       \* what it returned
    pj_iteration,   \* ProjectGenerator: the iteration of the last result
    project_files,  \* the project_files of the last result
    pj_obs,         \* observation of the last generator call
    to_render,      \* the last result has not been rendered yet
    renders,        \* number of render_project calls so far
    active_servers, \* ProjectManager.active_servers
    running,        \* the development-server processes that are alive
    rd_obs          \* observation of the last render_project call

mgrVars == <<max_concurrent_models, loaded_models, model_states,
             conversation_history, clock, last>>

genVars == <<gen_pc, task, iterations, renderer, iteration, results,
             current_html, html_files, gen_ret, tasks_started, gen_obs,
             gen_results, caller_pc>>

runVars == <<run_pc, mode, clients, built, config_iterations,
             generation_results, evaluation_results, cursor, shutdowns,
             driver, run_error, run_outcome, run_obs, last_eval,
             total_operations, completed_operations>>

judgeVars == <<jd_pc, manager_client, jd_call, jd_pos, all_evaluations,
               eval_files, jd_sent, last_judging, jd_calls>>

sumVars == <<sm_pc, evaluations, summary>>

exVars == <<ex_pc, response_text, html_out>>

projVars == <<pj_iteration, project_files, pj_obs, to_render, renders,
              active_servers, running, rd_obs>>

unitVars == <<judgeVars, sumVars, exVars, projVars>>

vars == <<mgrVars, genVars, runVars, unitVars>>

\* ModelState(name=name) as constructed in ModelManager.__init__.
ModelState == [loaded |-> FALSE, last_used |-> 0, error_count |-> 0]

\* The manager's mutable state gathered in one record, so that nested calls
\* (generate -> load_model -> _unload_lru_model -> unload_model) compose.
MgrState == [loaded_models |-> loaded_models,
             model_states |-> model_states,
             conversation_history |-> conversation_history,
             clock |-> clock]

\* The observation record: the operation, its inputs and its outcome.
NoOp == [op |-> "init", model |-> "", ret |-> "", memHigh |-> FALSE,
         loadedBefore |-> {}, oldest |-> {}, newest |-> {},
         wasLoaded |-> FALSE, afterSuccess |-> FALSE, evicted |-> {},
         warmup |-> FALSE, warmFailed |-> FALSE,
         forwarded |-> FALSE, callFailed |-> FALSE,
         errPeak |-> 0, forced |-> FALSE, chatty |-> {}]

\* The loaded models with the smallest / the largest last_used.
OldestLoaded ==
    {m \in loaded_models : \A n \in loaded_models :
        model_states[m].last_used <= model_states[n].last_used}
NewestLoaded ==
    {m \in loaded_models : \A n \in loaded_models :
        model_states[n].last_used <= model_states[m].last_used}

\* Variant: the stored conversation is left in place.
ClearConversationHistoryKept(S, m) == S

\* client.clear_conversation_history(model_name): conversation_history.pop
ClearConversationHistory(S, m) ==
    [S EXCEPT !.conversation_history[m] = <<>>]

\* Variant: the state update without the clearing of the history.
UnloadModelKeepsHistory(S, m) ==
    IF ~S.model_states[m].loaded
    THEN S
    ELSE [S EXCEPT !.model_states[m].loaded = FALSE,
                   !.loaded_models = @ \ {m}]

\* ModelManager.unload_model for a configured model.
UnloadModel(S, m) ==
    IF ~S.model_states[m].loaded
    THEN S
    ELSE LET C == ClearConversationHistory(S, m)
         IN [C EXCEPT !.model_states[m].loaded = FALSE,
                      !.loaded_models = @ \ {m}]

\* Variant: max in place of min.
LruModelNewest(S) ==
    CHOOSE m \in S.loaded_models :
        \A n \in S.loaded_models :
            S.model_states[n].last_used <= S.model_states[m].last_used

\* min(self.loaded_models, key=last_used)
LruModel(S) ==
    CHOOSE m \in S.loaded_models :
        \A n \in S.loaded_models :
            S.model_states[m].last_used <= S.model_states[n].last_used

\* ModelManager._unload_lru_model
UnloadLruModel(S) ==
    IF S.loaded_models = {} THEN S ELSE UnloadModel(S, LruModel(S))

\* sorted(self.loaded_models, key=last_used)[-1]
MruModel(S) ==
    CHOOSE m \in S.loaded_models :
        \A n \in S.loaded_models :
            S.model_states[n].last_used <= S.model_states[m].last_used

RECURSIVE UnloadAll(_, _)
UnloadAll(S, ms) ==
    IF ms = {} THEN S
    ELSE LET m == CHOOSE x \in ms : TRUE
         IN UnloadAll(UnloadModel(S, m), ms \ {m})

\* Variant: nothing is unloaded under memory pressure.
FreeMemorySkipped(S) == S

\* ModelManager._free_memory: unload all but the most recently used model.
FreeMemory(S) ==
    IF Cardinality(S.loaded_models) <= 1 THEN S
    ELSE UnloadAll(S, S.loaded_models \ {MruModel(S)})

\* Variant: the capacity test with > in place of >=.
AtCapacityStrict(S, cap) == Cardinality(S.loaded_models) > cap

\* The capacity test of load_model (line 171).
AtCapacity(S, cap) == Cardinality(S.loaded_models) >= cap

\* Variant: the state update made before the warm-up call, so that a failed
\* warm-up leaves the model marked as loaded.
LoadFailureMarked(S, m) ==
    [S |-> [S EXCEPT !.model_states[m].error_count = @ + 1,
                     !.model_states[m].loaded = TRUE,
                     !.loaded_models = @ \cup {m}],
     ret |-> "raise", warmup |-> TRUE]

\* The except branch of load_model (lines 224-228): count the error, raise.
LoadFailure(S, m) ==
    [S |-> [S EXCEPT !.model_states[m].error_count = @ + 1],
     ret |-> "raise", warmup |-> TRUE]

\* Variant: the loaded flag set, the model not added to loaded_models.
LoadSuccessUnlisted(S, m) ==
    [S |-> [S EXCEPT !.model_states[m].loaded = TRUE,
                     !.model_states[m].last_used = S.clock + 1,
                     !.clock = S.clock + 1],
     ret |-> "true", warmup |-> TRUE]

\* The state update of load_model after the warm-up call (lines 211-223).
LoadSuccess(S, m) ==
    [S |-> [S EXCEPT !.model_states[m].loaded = TRUE,
                     !.model_states[m].last_used = S.clock + 1,
                     !.clock = S.clock + 1,
                     !.loaded_models = @ \cup {m}],
     ret |-> "true", warmup |-> TRUE]

\* ModelManager.load_model for a configured model.
\*   memHigh : not check_memory_threshold()
\*   avail   : ensure_model_available(model_name)
\*   warmOk  : the warm-up client.generate call returns
\* Result: the new manager state, what load_model does (ret is "true",
\* "false" or "raise") and whether the warm-up call was made.
LoadModel(S, cap, m, memHigh, avail, warmOk) ==
    IF S.model_states[m].loaded
    THEN [S |-> S, ret |-> "true", warmup |-> FALSE]
    ELSE LET S1 == IF memHigh THEN FreeMemory(S) ELSE S
             S2 == IF AtCapacity(S1, cap) THEN UnloadLruModel(S1) ELSE S1
         IN IF ~avail
            THEN [S |-> S2, ret |-> "false", warmup |-> FALSE]
            ELSE IF warmOk THEN LoadSuccess(S2, m) ELSE LoadFailure(S2, m)

\* Variant: the user message stored, the assistant response not.
ClientGenerateUserOnly(S, m, useHist, prompt, image, resp) ==
    IF useHist
    THEN [S EXCEPT !.conversation_history[m] =
              @ \o <<[role |-> "user", prompt |-> prompt, image |-> image]>>]
    ELSE S

\* client.generate(model_name, prompt, use_conversation_history=...) when the
\* provider call returns: _update_conversation_history appends the user
\* message and the assistant response when history is in use.
ClientGenerateOk(S, m, useHist, prompt, image, resp) ==
    IF useHist
    THEN [S EXCEPT !.conversation_history[m] =
              @ \o <<[role |-> "user", prompt |-> prompt, image |-> image],
                     [role |-> "assistant", content |-> resp]>>]
    ELSE S

\* _prepare_messages: the stored conversation when history is in use, then
\* the user message with the prompt and the image.
PrepareMessages(S, m, useHist, prompt, image) ==
    (IF useHist THEN S.conversation_history[m] ELSE <<>>)
        \o <<[role |-> "user", prompt |-> prompt, image |-> image]>>

\* The failure budget test of generate's except branch (line 316).
BudgetHit(count) == count >= max_retries

\* The try body of generate once the provider call has returned
\* (lines 305-311): stamp last_used and return the response.
GenerateSuccess(S, m) ==
    [S |-> [S EXCEPT !.model_states[m].last_used = S.clock + 1,
                     !.clock = S.clock + 1],
     ret |-> "response", errPeak |-> 0, forced |-> FALSE]

\* Variant: the except branch returns an error-carrying response instead of
\* re-raising (as GeminiProvider.generate does).
GenerateFailureSwallowed(S, m) ==
    LET peak == S.model_states[m].error_count + 1
        S2 == [S EXCEPT !.model_states[m].error_count = peak]
    IN IF BudgetHit(peak)
       THEN [S |-> [UnloadModel(S2, m) EXCEPT
                    !.model_states[m].error_count = 0],
             ret |-> "response", errPeak |-> peak, forced |-> TRUE]
       ELSE [S |-> S2, ret |-> "response", errPeak |-> peak,
             forced |-> FALSE]

\* The except branch of generate (lines 312-322): count the error, unload
\* and reset on reaching the budget, re-raise.  errPeak is error_count right
\* after the increment.
GenerateFailure(S, m) ==
    LET peak == S.model_states[m].error_count + 1
        S2 == [S EXCEPT !.model_states[m].error_count = peak]
    IN IF BudgetHit(peak)
       THEN [S |-> [UnloadModel(S2, m) EXCEPT
                    !.model_states[m].error_count = 0],
             ret |-> "raise", errPeak |-> peak, forced |-> TRUE]
       ELSE [S |-> S2, ret |-> "raise", errPeak |-> peak, forced |-> FALSE]

\* What the forwarded client.generate call does: it returns ("ok"), it fails
\* before the provider answered ("early"), or it fails after the answer was
\* stored in the conversation history, while logging the call or building
\* the result ("late").
CallOutcomes == {"ok", "early", "late"}

\* ModelManager.generate for a configured model.
\*   call : what the forwarded client.generate call does
\* ret is "response" or "raise"; warmup and forwarded tell which provider
\* calls were made.
Generate(S, cap, m, useHist, prompt, image, resp, memHigh, avail, warmOk, call) ==
    LET L == IF S.model_states[m].loaded
             THEN [S |-> S, ret |-> "true", warmup |-> FALSE]
             ELSE LoadModel(S, cap, m, memHigh, avail, warmOk)
        S1 == L.S
    IN IF L.ret # "true"
       THEN [S |-> S1, ret |-> "raise", warmup |-> L.warmup,
             forwarded |-> FALSE,
             errPeak |-> IF L.ret = "raise"
                         THEN S1.model_states[m].error_count ELSE 0,
             forced |-> FALSE]
       ELSE LET A == ClientGenerateOk(S1, m, useHist, prompt, image, resp)
                G == IF call = "ok" THEN GenerateSuccess(A, m)
                     ELSE IF call = "late" THEN GenerateFailure(A, m)
                     ELSE GenerateFailure(S1, m)
            IN [S |-> G.S, ret |-> G.ret, warmup |-> L.warmup,
                forwarded |-> TRUE, errPeak |-> G.errPeak,
                forced |-> G.forced]

\* ModelManager.cleanup: unload every loaded model.
CleanupAll(S) == UnloadAll(S, S.loaded_models)

\* ------------------------------------------------------ HTML extraction
\* A text is a sequence of tokens: "nl" is whitespace, "[fence-html]" is the
\* labelled fence marker (three backquotes and html), "[fence]" the bare one
\* (three backquotes), "<...>" are tags, anything else is plain text.
None == <<>>
Fences == {"[fence-html]", "[fence]"}
OpenTags == {"<html>", "<body>", "<div>", "<p>"}
CloseTags == {"</html>", "</body>", "</div>", "</p>"}
AnyTags == OpenTags \cup CloseTags \cup {"<!DOCTYPE>"}

RECURSIVE SkipNl(_, _)
\* Index of the first token at or after i that is not whitespace.
SkipNl(t, i) ==
    IF i <= Len(t) /\ t[i] = "nl" THEN SkipNl(t, i + 1) ELSE i

RECURSIVE Strip(_)
\* str.strip(): drop leading and trailing whitespace.
Strip(t) ==
    IF t = <<>> THEN t
    ELSE IF Head(t) = "nl" THEN Strip(Tail(t))
    ELSE IF t[Len(t)] = "nl" THEN Strip(SubSeq(t, 1, Len(t) - 1))
    ELSE t

Has(t, toks) == \E i \in 1..Len(t) : t[i] \in toks

MinOf(S) == CHOOSE x \in S : \A y \in S : x <= y
MaxOf(S) == CHOOSE x \in S : \A y \in S : y <= x

\* re.findall(open .*? close)[0] as the pair of its end points: the leftmost
\* opening token and the nearest closing token after it; <<0, 0>> if none.
FirstSpan(t, opens, closes) ==
    LET starts == {i \in 1..Len(t) :
                     t[i] \in opens /\ \E j \in (i+1)..Len(t) : t[j] \in closes}
    IN IF starts = {} THEN <<0, 0>>
       ELSE LET i == MinOf(starts)
            IN <<i, MinOf({j \in (i+1)..Len(t) : t[j] \in closes})>>

SpanText(t, sp) == SubSeq(t, sp[1], sp[2])

\* Pattern 1, labelled fence .. fence: group 1 of the first match.  A second
\* labelled marker closes the span too, since it begins with a bare one.
FencedHtml(t) ==
    LET sp == FirstSpan(t, {"[fence-html]"}, Fences)
    IN [found |-> sp[1] # 0,
        text |-> IF sp[1] = 0 THEN <<>>
                 ELSE Strip(SubSeq(t, sp[1] + 1, sp[2] - 1))]

\* Pattern 2, bare fence, <!DOCTYPE .. </html>, fence: group 1 of the first
\* match.
FencedDoctype(t) ==
    LET ends(d) == {h \in (d+1)..Len(t) :
                      /\ t[h] = "</html>"
                      /\ SkipNl(t, h + 1) <= Len(t)
                      /\ t[SkipNl(t, h + 1)] \in Fences}
        starts == {i \in 1..Len(t) :
                      /\ t[i] = "[fence]"
                      /\ SkipNl(t, i + 1) <= Len(t)
                      /\ t[SkipNl(t, i + 1)] = "<!DOCTYPE>"
                      /\ ends(SkipNl(t, i + 1)) # {}}
    IN [found |-> starts # {},
        text |-> IF starts = {} THEN <<>>
                 ELSE LET d == SkipNl(t, MinOf(starts) + 1)
                      IN SubSeq(t, d, MinOf(ends(d)))]

\* Patterns 3-7: the whole first match of an open/close pair.
TagSpan(t, opens, closes) ==
    LET sp == FirstSpan(t, opens, closes)
    IN [found |-> sp[1] # 0,
        text |-> IF sp[1] = 0 THEN <<>> ELSE SpanText(t, sp)]

\* HTMLProcessor.html_patterns applied to a text, in list order.
PatternMatches(t) ==
    << FencedHtml(t),
       FencedDoctype(t),
       TagSpan(t, {"<html>"}, {"</html>"}),
       TagSpan(t, {"<!DOCTYPE>"}, {"</html>"}),
       TagSpan(t, {"<body>"}, {"</body>"}),
       TagSpan(t, {"<div>"}, {"</div>"}),
       TagSpan(t, AnyTags, CloseTags) >>

RECURSIVE Join(_)
\* "\n".join(lines)
Join(t) ==
    IF Len(t) <= 1 THEN t ELSE <<Head(t), "nl">> \o Join(Tail(t))

\* soup.prettify(): one node per line, original whitespace dropped, and a
\* final newline.
Prettify(t) ==
    LET nodes == SelectSeq(t, LAMBDA x : x # "nl")
    IN IF nodes = <<>> THEN <<>> ELSE Join(nodes) \o <<"nl">>

RECURSIVE RStrip(_)
\* Drop trailing whitespace.
RStrip(t) ==
    IF t # <<>> /\ t[Len(t)] = "nl" THEN RStrip(SubSeq(t, 1, Len(t) - 1))
    ELSE t

\* The three re.sub calls of _clean_html (lines 80-83): a leading labelled
\* fence, then a leading bare fence, then a trailing bare fence, each with
\* the whitespace next to it.
Unfence(t) ==
    LET a == IF t # <<>> /\ Head(t) = "[fence-html]"
             THEN SubSeq(t, SkipNl(t, 2), Len(t)) ELSE t
        b == IF a # <<>> /\ Head(a) = "[fence]"
             THEN SubSeq(a, SkipNl(a, 2), Len(a)) ELSE a
    IN IF b # <<>> /\ b[Len(b)] = "[fence]"
       THEN RStrip(SubSeq(b, 1, Len(b) - 1)) ELSE b

\* HTMLProcessor._clean_html
CleanHtml(t) ==
    LET u == Unfence(t)
    IN Strip(IF ~Has(u, {"<html>"})
             THEN IF Has(u, {"<body>", "<head>"})
                  THEN <<"<html>">> \o Prettify(u) \o <<"</html>">>
                  ELSE <<"<!DOCTYPE>", "nl", "<html>", "nl", "<head>", "nl",
                         "<meta>", "nl", "<meta>", "nl", "<title>", "nl",
                         "</head>", "nl", "<body>", "nl">>
                       \o Prettify(u)
                       \o <<"nl", "</body>", "nl", "</html>">>
             ELSE Prettify(u))

\* HTMLProcessor._is_valid_html: an indicator substring is present and the
\* parser finds at least one element.
IsValidHtml(t) ==
    /\ Strip(t) # <<>>
    /\ Has(t, OpenTags \cup {"<!DOCTYPE>", "<head>", "<meta>"})
    /\ Has(t, OpenTags \cup {"<head>", "<meta>", "<title>"})

\* HTMLProcessor._extract_html_like_content
ExtractHtmlLike(t) ==
    LET m == TagSpan(t, AnyTags, CloseTags)
    IN IF m.found /\ IsValidHtml(m.text) THEN CleanHtml(m.text) ELSE None

RECURSIVE FirstValid(_, _)
\* The pattern loop of extract_html: the cleaned first match of the first
\* pattern whose cleaned match is valid.
FirstValid(ms, i) ==
    IF i > Len(ms) THEN None
    ELSE IF ms[i].found /\ IsValidHtml(CleanHtml(ms[i].text))
         THEN CleanHtml(ms[i].text)
         ELSE FirstValid(ms, i + 1)

\* HTMLProcessor.extract_html: None when nothing is found.
ExtractHtml(text) ==
    LET t == Strip(text)
        byPattern == FirstValid(PatternMatches(t), 1)
    IN IF byPattern # None THEN byPattern
       ELSE IF IsValidHtml(t) THEN CleanHtml(t)
       ELSE ExtractHtmlLike(t)

\* ------------------------------------------------------------ the manager
\* A request prompt: the task prompt of round 1 or the improvement prompt of
\* a later round (_create_improvement_prompt: iteration number and task
\* description).
TaskPrompt(t) == [kind |-> "task", iteration |-> 1, task |-> t]
ImprovementPrompt(t, k) ==
    [kind |-> "improve", iteration |-> k, task |-> t]
AnyPrompt == TaskPrompt("t")

\* A screenshot reference; NoShot stands for None / a missing key.
NoShot == [task |-> "", iteration |-> 0, kind |-> "none"]
Shot(t, k, kind) == [task |-> t, iteration |-> k, kind |-> kind]

Commit(S) ==
    /\ loaded_models' = S.loaded_models
    /\ model_states' = S.model_states
    /\ conversation_history' = S.conversation_history
    /\ clock' = S.clock

\* State after ModelManager.__init__.
MgrInit ==
    /\ max_concurrent_models \in 1..MaxCapacity
    /\ loaded_models = {}
    /\ model_states = [m \in Models |-> ModelState]
    /\ conversation_history = [m \in Models |-> <<>>]
    /\ clock = 0
    /\ last = NoOp

\* What the properties read of the state before an operation on model m.
Before(m) ==
    [NoOp EXCEPT !.model = m,
                 !.loadedBefore = loaded_models,
                 !.oldest = OldestLoaded,
                 !.newest = NewestLoaded,
                 !.wasLoaded = model_states[m].loaded,
                 !.chatty = {n \in Models : conversation_history[n] # <<>>},
                 !.afterSuccess = /\ last.op = "generate"
                                  /\ last.model = m
                                  /\ last.ret = "response"]

\* The provider outcomes a generate call on m can meet in a bounded run.
\* An outcome the call does not get to read is fixed: the load path is not
\* taken for a loaded model, no warm-up call is made for an unavailable
\* model, and no call is forwarded after a failed load.
Outcome(m, useHist, memHigh, avail, warmOk, call) ==
    /\ ~warmOk => model_states[m].error_count < MaxErrors
    /\ (~warmOk \/ ~avail \/ call # "ok") => m \in Flaky
    /\ call = "late" => useHist
    /\ model_states[m].loaded => (~memHigh /\ avail /\ warmOk)
    /\ ~avail => warmOk
    /\ (~avail \/ ~warmOk) => call = "ok"

\* A call load_model(m) by a client of the manager.
EnsureActive(m) ==
    /\ clock < MaxClock
    /\ \E memHigh \in BOOLEAN, avail \in BOOLEAN, warmOk \in BOOLEAN :
         /\ Outcome(m, FALSE, memHigh, avail, warmOk, "ok")
         /\ LET R == LoadModel(MgrState, max_concurrent_models, m,
                               memHigh, avail, warmOk)
            IN /\ Commit(R.S)
               /\ last' = [Before(m) EXCEPT
                        !.op = "load_model",
                        !.ret = R.ret,
                        !.memHigh = memHigh /\ ~model_states[m].loaded,
                        !.evicted = loaded_models \ R.S.loaded_models,
                        !.warmup = R.warmup,
                        !.warmFailed = R.warmup /\ ~warmOk,
                        !.errPeak = IF R.ret = "raise"
                                    THEN R.S.model_states[m].error_count
                                    ELSE 0]
    /\ UNCHANGED max_concurrent_models

\* The observation of a generate call with result R.
ObserveGenerate(m, R, memHigh, warmOk, call) ==
    [Before(m) EXCEPT
        !.op = "generate",
        !.ret = R.ret,
        !.memHigh = memHigh /\ ~model_states[m].loaded,
        !.evicted = loaded_models \ R.S.loaded_models,
        !.warmup = R.warmup,
        !.warmFailed = R.warmup /\ ~warmOk,
        !.forwarded = R.forwarded,
        !.callFailed = R.forwarded /\ call # "ok",
        !.errPeak = R.errPeak,
        !.forced = R.forced]

\* A call generate(m, prompt) or generate_with_conversation(m, prompt).
Invoke(m) ==
    /\ clock + 1 < MaxClock
    /\ \E useHist \in BOOLEAN, memHigh \in BOOLEAN, avail \in BOOLEAN,
          warmOk \in BOOLEAN, call \in CallOutcomes :
         /\ useHist => /\ m \in Conversing
                       /\ Len(conversation_history[m]) + 2 <= MaxTurns
         /\ Outcome(m, useHist, memHigh, avail, warmOk, call)
         /\ LET R == Generate(MgrState, max_concurrent_models, m, useHist,
                              AnyPrompt, NoShot, <<"r">>,
                              memHigh, avail, warmOk, call)
            IN /\ Commit(R.S)
               /\ last' = ObserveGenerate(m, R, memHigh, warmOk, call)
    /\ UNCHANGED max_concurrent_models

\* A call unload_model(m) on a loaded model (on a model that is not loaded
\* it returns True and changes nothing, lines 235-237).
Release(m) ==
    /\ model_states[m].loaded
    /\ Commit(UnloadModel(MgrState, m))
    /\ last' = [Before(m) EXCEPT !.op = "unload_model", !.ret = "true",
                                 !.evicted = loaded_models \cap {m}]
    /\ UNCHANGED max_concurrent_models

\* A call clear_conversation(m).
ClearConversation(m) ==
    /\ conversation_history[m] # <<>>
    /\ Commit(ClearConversationHistory(MgrState, m))
    /\ last' = [Before(m) EXCEPT !.op = "clear_conversation", !.ret = "none"]
    /\ UNCHANGED max_concurrent_models

\* A call cleanup().
Cleanup ==
    /\ loaded_models # {}
    /\ Commit(CleanupAll(MgrState))
    /\ last' = [NoOp EXCEPT !.op = "cleanup",
                            !.loadedBefore = loaded_models,
                            !.chatty = {n \in Models :
                                          conversation_history[n] # <<>>},
                            !.evicted = loaded_models]
    /\ UNCHANGED max_concurrent_models

\* -------------------------------------------- HTMLGenerator (the loop)
\* The model under generation, the tasks generated in turn, and the
\* provider responses: prose
\* only, a document in a labelled fence inside prose, and a bare fragment.
GenModel == "A"
TaskQueue == <<"t1", "t2">>
Responses ==
    { <<"prose">>,
      <<"prose", "nl", "[fence-html]", "nl", "<html>", "v1", "</html>",
        "nl", "[fence]", "nl", "prose">>,
      <<"<div>", "v2", "</div>">> }

\* html_processor.extract_html applied to each provider response.
Extracted == [r \in Responses |-> ExtractHtml(r)]

\* An entry of a phase's result dict: absent, or a list of items.
Absent == [present |-> FALSE, items |-> <<>>]
Entry(items) == [present |-> TRUE, items |-> items]

NoObs == [trouble |-> {}, cause |-> "", rounds |-> <<>>]

\* The log entry of a round: request is the list of messages sent to the
\* provider (empty when no call was forwarded), got tells whether the
\* provider call returned, render what the rendering of the round's document
\* did.
Called(obs, request, got, resp, io, render) ==
    [obs EXCEPT !.rounds = Append(@, [request |-> request, got |-> got,
                                      resp |-> resp, io |-> io,
                                      render |-> render])]

GenIdle ==
    /\ gen_pc = "idle"
    /\ task = ""
    /\ iterations = 0
    /\ renderer = FALSE
    /\ iteration = 0
    /\ results = <<>>
    /\ current_html = None
    /\ html_files = {}
    /\ gen_ret = <<>>
    /\ tasks_started = 0
    /\ gen_obs = NoObs
    /\ gen_results = <<>>
    /\ caller_pc = "idle"

\* Variant: round 1 without the test of line 49.
InitialContentUnchecked(html) == TRUE

\* Round 1 has no content to fall back on: the test of line 49.
InitialContentOk(html) == html # None

\* Variant: the fallback of a later round never taken.
ImprovedContentNoFallback(html, previous_html) == html

\* The content of a later round (lines 116-121): the extracted document, or
\* the previous iteration's content when extraction found nothing.
ImprovedContent(html, previous_html) ==
    IF html = None THEN previous_html ELSE html

\* The result dict of generate_initial_html (lines 55-67).
InitialResult(t, resp, html) ==
    [iteration |-> 1, model_name |-> GenModel, task_name |-> t,
     html_content |-> html, raw_response |-> resp,
     screenshot_path |-> NoShot, llm_screenshot_path |-> NoShot]

\* The result dict of improve_html (lines 126-140); its screenshot_path is
\* the screenshot the request was sent with.
ImproveResult(t, k, resp, html, shot) ==
    [iteration |-> k, model_name |-> GenModel, task_name |-> t,
     html_content |-> html, raw_response |-> resp,
     screenshot_path |-> shot, llm_screenshot_path |-> NoShot]

\* prev_result.get("llm_screenshot_path") or prev_result.get("screenshot_path")
PrevScreenshot(rs) ==
    IF rs[Len(rs)].llm_screenshot_path # NoShot
    THEN rs[Len(rs)].llm_screenshot_path
    ELSE rs[Len(rs)].screenshot_path

\* Variant: the loop starts counting at 0.
NumberedFromZero(k) == k - 1

\* The iteration number a result of loop round k carries.
IterationNumber(k) == k

\* The rendering part of an iteration (lines 225-251).
\*   render : "none" when no renderer was passed, else what render_html_file
\*            does: "llm" (success with an LLM screenshot), "full" (success
\*            without one), "fail" (success False) or "exception"
Rendered(r, render) ==
    IF render = "llm"
    THEN [r EXCEPT !.screenshot_path = Shot(r.task_name, r.iteration, "full"),
                   !.llm_screenshot_path =
                        Shot(r.task_name, r.iteration, "llm")]
    ELSE IF render = "full"
    THEN [r EXCEPT !.screenshot_path = Shot(r.task_name, r.iteration, "full"),
                   !.llm_screenshot_path = NoShot]
    ELSE r

RenderOutcomes(hasRenderer, saved) ==
    IF ~hasRenderer THEN {"none"}
    ELSE IF ~saved THEN {"exception"}
    ELSE {"llm", "full", "fail", "exception"}

\* The observation of a round: the troubles met so far.
Troubled(obs, resp, render, io) ==
    [obs EXCEPT !.trouble = @
        \cup (IF Extracted[resp] = None THEN {"unparseable"} ELSE {})
        \cup (IF render \notin {"llm", "full"} THEN {"render"} ELSE {})
        \cup (IF io # "ok" THEN {"io"} ELSE {})]

\* generate_complete_task raises RuntimeError: nothing is returned.
GenRaise(obs, cause) ==
    /\ gen_pc' = "raised"
    /\ gen_ret' = <<>>
    /\ gen_obs' = [obs EXCEPT !.cause = cause,
                              !.trouble = @ \cup {cause}]
    /\ UNCHANGED <<task, iterations, renderer, iteration, results,
                   current_html, html_files, tasks_started, gen_results,
                   caller_pc>>

\* The rest of a loop round once its result dict exists (lines 220-263):
\* save the document, render it, write the metadata, append the result.
\*   io : "ok", "save" (save_html fails and returns False) or "meta" (the
\*        metadata file cannot be written, which raises)
FinishRound(obs, r, io, render) ==
    IF io = "meta"
    THEN /\ gen_pc' = "raised"
         /\ gen_ret' = <<>>
         /\ gen_obs' = [Troubled(obs, r.raw_response, render, io)
                            EXCEPT !.cause = "io"]
         /\ html_files' = html_files \cup {r.iteration}
         /\ UNCHANGED <<task, iterations, renderer, iteration, results,
                        current_html, tasks_started, gen_results,
                        caller_pc>>
    ELSE /\ results' = Append(results, Rendered(r, render))
         /\ current_html' = r.html_content
         /\ iteration' = iteration + 1
         /\ html_files' = IF io = "save" THEN html_files
                          ELSE html_files \cup {r.iteration}
         /\ gen_obs' = Troubled(obs, r.raw_response, render, io)
         /\ UNCHANGED <<gen_pc, gen_ret, task, iterations, renderer,
                        tasks_started, gen_results, caller_pc>>

\* A call generate_complete_task(GenModel, t, iterations=n, renderer=...):
\* up to the loop (lines 181-194).
StartTask ==
    /\ gen_pc \in {"idle", "returned", "raised"}
    /\ caller_pc \in {"idle", "recorded"}
    /\ caller_pc' = "calling"
    /\ tasks_started < Len(TaskQueue)
    /\ gen_results' = [t \in {TaskQueue[tasks_started + 1]} |-> Absent]
    /\ \E n \in 1..MaxIterations, hasRenderer \in BOOLEAN :
         /\ task' = TaskQueue[tasks_started + 1]
         /\ iterations' = n
         /\ renderer' = hasRenderer
    /\ gen_pc' = "running"
    /\ iteration' = 1
    /\ results' = <<>>
    /\ current_html' = None
    /\ html_files' = {}
    /\ gen_ret' = <<>>
    /\ tasks_started' = tasks_started + 1
    /\ gen_obs' = NoObs
    /\ UNCHANGED mgrVars

\* Loop round 1: generate_initial_html and the rest of the round.
InitialRound ==
    /\ gen_pc = "running" /\ iteration = 1 /\ iteration <= iterations
    /\ \E resp \in Responses, memHigh \in BOOLEAN, avail \in BOOLEAN,
          warmOk \in BOOLEAN, call \in CallOutcomes,
          io \in {"ok", "save", "meta"} :
         /\ Outcome(GenModel, FALSE, memHigh, avail, warmOk, call)
         /\ LET S0 == ClearConversationHistory(MgrState, GenModel)
                R == Generate(S0, max_concurrent_models, GenModel, FALSE,
                              TaskPrompt(task), NoShot, resp,
                              memHigh, avail, warmOk, call)
                html == Extracted[resp]
                q == IF R.forwarded
                     THEN PrepareMessages(S0, GenModel, FALSE,
                                          TaskPrompt(task), NoShot)
                     ELSE <<>>
            IN /\ Commit(R.S)
               /\ last' = ObserveGenerate(GenModel, R, memHigh, warmOk,
                                          call)
               /\ IF R.ret = "raise"
                  THEN GenRaise(Called(gen_obs, q, FALSE, <<>>, "ok", "none"),
                                "provider")
                  ELSE IF ~InitialContentOk(html)
                  THEN GenRaise(Troubled(Called(gen_obs, q, TRUE, resp, "ok",
                                                "none"),
                                         resp, "llm", "ok"),
                                "extraction")
                  ELSE \E render \in RenderOutcomes(renderer, io # "save") :
                         FinishRound(Called(gen_obs, q, TRUE, resp, io,
                                            render),
                             InitialResult(task, resp, html), io, render)
    /\ UNCHANGED max_concurrent_models

\* Loop round k > 1 with a screenshot to send: improve_html and the rest of
\* the round.
ImproveRound ==
    /\ gen_pc = "running" /\ iteration > 1 /\ iteration <= iterations
    /\ current_html # None
    /\ PrevScreenshot(results) # NoShot
    /\ \E resp \in Responses, memHigh \in BOOLEAN, avail \in BOOLEAN,
          warmOk \in BOOLEAN, call \in CallOutcomes,
          io \in {"ok", "save", "meta"} :
         /\ Outcome(GenModel, TRUE, memHigh, avail, warmOk, call)
         /\ LET shot == PrevScreenshot(results)
                R == Generate(MgrState, max_concurrent_models, GenModel,
                              TRUE, ImprovementPrompt(task, iteration),
                              shot, resp, memHigh, avail, warmOk, call)
                html == ImprovedContent(Extracted[resp], current_html)
                q == IF R.forwarded
                     THEN PrepareMessages(MgrState, GenModel, TRUE,
                              ImprovementPrompt(task, iteration), shot)
                     ELSE <<>>
            IN /\ Commit(R.S)
               /\ last' = ObserveGenerate(GenModel, R, memHigh, warmOk,
                                          call)
               /\ IF R.ret = "raise"
                  THEN GenRaise(Called(gen_obs, q, FALSE, <<>>, "ok", "none"),
                                "provider")
                  ELSE \E render \in RenderOutcomes(renderer, io # "save") :
                         FinishRound(Called(gen_obs, q, TRUE, resp, io,
                                            render),
                             ImproveResult(task, IterationNumber(iteration),
                                           resp, html, shot),
                             io, render)
    /\ UNCHANGED max_concurrent_models

\* The loop ends, by exhaustion or by the break of line 216 when the previous
\* result has no screenshot; the summary is written and results returned
\* (lines 264-295).
ReturnResults ==
    /\ gen_pc = "running"
    /\ \/ iteration > iterations
       \/ iteration > 1 /\ PrevScreenshot(results) = NoShot
    /\ \E sumOk \in BOOLEAN :
         IF sumOk
         THEN /\ gen_pc' = "returned"
              /\ gen_ret' = results
              /\ UNCHANGED gen_obs
         ELSE /\ gen_pc' = "raised"
              /\ gen_ret' = <<>>
              /\ gen_obs' = [gen_obs EXCEPT !.cause = "io",
                                            !.trouble = @ \cup {"io"}]
    /\ UNCHANGED <<task, iterations, renderer, iteration, results,
                   current_html, html_files, tasks_started, gen_results,
                   caller_pc>>
    /\ UNCHANGED mgrVars

\* --------------------------------------------- BenchmarkPipeline (a run)
\* config.models, config.tasks and the judge models, in configured order.
PipelineModels == <<"A", "B">>
PipelineTasks == <<"t1", "t2">>
JudgeModels == <<"J1", "J2">>
Modes == {"generation-only", "judging-only", "full-pipeline"}

\* The total that judging-only mode assumes (line 122).
PlaceholderTotal == 100

\* The (model, task) pairs in the order of the nested loops.
Pairs ==
    [i \in 1..(Len(PipelineModels) * Len(PipelineTasks)) |->
        <<PipelineModels[((i - 1) \div Len(PipelineTasks)) + 1],
          PipelineTasks[((i - 1) % Len(PipelineTasks)) + 1]>>]
PairSet == {Pairs[i] : i \in 1..Len(Pairs)}

NoEval == [pair |-> <<"", "">>, asked |-> {}, ok |-> {}, records |-> <<>>]
NoRunObs == [gen_failed |-> {}, eval_failed |-> {}, phases_done |-> {},
             cleanup_failed |-> FALSE, unreachable |-> FALSE, primary |-> ""]

\* State after BenchmarkPipeline.__init__ (components None, results empty).
RunIdle ==
    /\ run_pc = "idle"
    /\ mode = ""
    /\ clients = {"ollama"}
    /\ built = {}
    /\ config_iterations = 0
    /\ generation_results = [p \in PairSet |-> Absent]
    /\ evaluation_results = [p \in PairSet |-> Absent]
    /\ cursor = 1
    /\ shutdowns = [manager |-> 0, renderer |-> 0]
    /\ driver = FALSE
    /\ run_error = ""
    /\ run_outcome = ""
    /\ run_obs = NoRunObs
    /\ last_eval = NoEval
    /\ total_operations = 0
    /\ completed_operations = 0

\* ModelManager._initialize_clients for the ollama provider: an unavailable
\* server is logged and skipped, an exception is logged; nothing is raised.
InitializeClients(reachable) ==
    [clients |-> IF reachable THEN {"ollama"} ELSE {}, ret |-> "ok"]

\* _get_client_for_model finds a client for the (ollama) model.
HasClient(cs) == "ollama" \in cs

\* ModelManager defines no attribute named client (its __init__ sets
\* models, memory_threshold, max_concurrent_models, logger, clients,
\* model_states and loaded_models).
ManagerHasClientAttribute == FALSE

\* Judge.evaluate_html: the request is sent through
\* self.model_manager.client; any exception becomes EvaluationError.
\*   answers : the judge's provider would return a valid evaluation
EvaluateHtml(answers) ==
    IF ManagerHasClientAttribute /\ answers THEN "record" ELSE "raise"

\* The (judge, iteration) pairs in the order of evaluate_all_iterations'
\* nested loops.
Judgings(judges, items) ==
    [n \in 1..(Len(judges) * Len(items)) |->
        <<judges[((n - 1) \div Len(items)) + 1],
          items[((n - 1) % Len(items)) + 1]>>]

\* Judge.evaluate_all_iterations: a pair whose evaluate_html raises is
\* logged and skipped, the others are appended in order.
EvaluateAll(judges, items, ok) ==
    SelectSeq(Judgings(judges, items),
              LAMBDA ji : EvaluateHtml(ji \in ok) = "record")

\* BenchmarkPipeline._calculate_total_operations for config.mode md and
\* config.iterations n.
CalculateTotalOperations(md, n) ==
    IF md = "generation-only"
    THEN Len(PipelineModels) * Len(PipelineTasks) * n
    ELSE IF md = "judging-only" THEN PlaceholderTotal
    ELSE Len(PipelineModels) * Len(PipelineTasks) * n
         + Len(PipelineModels) * Len(PipelineTasks) * n * Len(JudgeModels)

\* BenchmarkPipeline._update_progress called times times in a row.
UpdateProgress(completed, times) == completed + times

\* The division of _update_progress (line 144) raises ZeroDivisionError,
\* after the counter was incremented.
ProgressRaises(total) == total = 0

\* Variant: a failed generation leaves no entry for the pair.
GenerationFailedUnrecorded(gr, p) == gr

\* The except branch of run_generation_phase: the pair's entry is [].
GenerationFailed(gr, p) == [gr EXCEPT ![p] = Entry(<<>>)]

\* run_generation_phase around one generate_complete_task call (lines
\* 177-191): the returned list becomes the pair's entry, an exception makes
\* the entry [].
RecordTaskResults ==
    /\ gen_pc \in {"returned", "raised"}
    /\ caller_pc = "calling"
    /\ gen_results' = IF gen_pc = "raised"
                      THEN GenerationFailed(gen_results, task)
                      ELSE [gen_results EXCEPT ![task] = Entry(gen_ret)]
    /\ caller_pc' = "recorded"
    /\ UNCHANGED <<gen_pc, task, iterations, renderer, iteration, results,
                   current_html, html_files, gen_ret, tasks_started,
                   gen_obs>>
    /\ UNCHANGED mgrVars

\* Variant: a failing driver.quit() is raised to the caller.
RendererCleanupRaises(drv, quitOk) ==
    [driver |-> drv /\ ~quitOk,
     ret |-> IF drv /\ ~quitOk THEN "raise" ELSE "ok"]

\* WebRenderer.cleanup -> _cleanup_driver: quit the driver if there is one;
\* a failing quit is logged and leaves the driver set.
RendererCleanup(drv, quitOk) ==
    [driver |-> drv /\ ~quitOk, ret |-> "ok"]

\* Variant: no finally block.
FinallyShutdownsNone(b, sd) == sd

\* The cleanup() calls of the finally block on the components that exist.
FinallyShutdowns(b, sd) ==
    [manager |-> sd.manager + (IF "manager" \in b THEN 1 ELSE 0),
     renderer |-> sd.renderer + (IF "renderer" \in b THEN 1 ELSE 0)]

\* run_full_pipeline up to the phases: _setup_components (the manager with
\* its clients, the generator, the renderer, the judge) and the choice of
\* the first phase.
\*   setup : "ok", or the component whose constructor fails creating the
\*           output directory
StartRun ==
    /\ run_pc = "idle"
    /\ \E md \in Modes, n \in 1..MaxIterations, reachable \in BOOLEAN,
          setup \in {"ok", "generator", "judge"} :
         LET I == InitializeClients(reachable)
             failed == I.ret = "raise" \/ setup # "ok"
         IN /\ mode' = md
            /\ config_iterations' = n
            /\ clients' = I.clients
            /\ built' = IF I.ret = "raise" THEN {}
                        ELSE IF setup = "generator" THEN {"manager"}
                        ELSE IF setup = "judge"
                        THEN {"manager", "generator", "renderer"}
                        ELSE {"manager", "generator", "renderer", "judge"}
            /\ run_error' = IF failed THEN "setup" ELSE ""
            /\ run_pc' = IF failed THEN "finally"
                         ELSE IF md = "judging-only" THEN "evaluation"
                         ELSE "generation"
            /\ run_obs' = [run_obs EXCEPT
                              !.unreachable = ~reachable,
                              !.primary = IF failed THEN "setup" ELSE ""]
            /\ total_operations' = IF failed THEN total_operations
                                   ELSE CalculateTotalOperations(md, n)
    /\ UNCHANGED completed_operations
    /\ UNCHANGED <<generation_results, evaluation_results, cursor,
                   shutdowns, driver, run_outcome, last_eval>>
    /\ UNCHANGED <<mgrVars, genVars>>

\* main() of main.py in generation-only mode (lines 181-189): it calls
\* run_generation_phase on the pipeline as constructed.  html_generator is
\* None, so the first generate_complete_task call raises AttributeError;
\* the except branch counts progress, _update_progress raises, and the
\* phase raises BenchmarkError before it stores any result.
MainGenerationOnly ==
    /\ run_pc = "idle"
    /\ \E n \in 1..MaxIterations : config_iterations' = n
    /\ mode' = "generation-only"
    /\ ProgressRaises(total_operations)
    /\ completed_operations' = UpdateProgress(completed_operations, 1)
    /\ run_outcome' = "generation"
    /\ run_pc' = "aborted"
    /\ UNCHANGED <<clients, built, generation_results, evaluation_results,
                   cursor, shutdowns, driver, run_error, run_obs, last_eval,
                   total_operations>>
    /\ UNCHANGED <<mgrVars, genVars>>

\* main() of main.py in judging-only mode (lines 190-191): it calls
\* run_evaluation_phase(), which finds no generation results in
\* self.results and raises BenchmarkError.
MainEvaluationOnly ==
    /\ run_pc = "idle"
    /\ \E n \in 1..MaxIterations : config_iterations' = n
    /\ mode' = "judging-only"
    /\ run_outcome' = "evaluation"
    /\ run_pc' = "aborted"
    /\ UNCHANGED <<clients, built, generation_results, evaluation_results,
                   cursor, shutdowns, driver, run_error, run_obs, last_eval,
                   total_operations, completed_operations>>
    /\ UNCHANGED <<mgrVars, genVars>>

\* One round of run_generation_phase's loops: generate_complete_task for
\* the pair at the cursor.  The first request goes through the manager as
\* in generate_initial_html; the rest of the task is summarised by the
\* number k of results it returns, 0 standing for an exception.
GeneratePair ==
    /\ run_pc = "generation" /\ cursor <= Len(Pairs)
    /\ \E memHigh \in BOOLEAN, avail \in BOOLEAN, warmOk \in BOOLEAN,
          call \in {"ok", "early"}, k \in 0..config_iterations :
         LET p == Pairs[cursor]
             m == p[1]
             S0 == ClearConversationHistory(MgrState, m)
             R == Generate(S0, max_concurrent_models, m, FALSE,
                           TaskPrompt(p[2]), NoShot, <<"r">>,
                           memHigh, avail, warmOk, call)
             reached == HasClient(clients)
             failed == ~reached \/ R.ret = "raise" \/ k = 0
         IN /\ Outcome(m, FALSE, memHigh, avail, warmOk, call)
            /\ (~reached \/ R.ret = "raise") => k = 0
            /\ ~reached => (memHigh /\ avail /\ warmOk /\ call = "ok")
            /\ IF reached
               THEN /\ Commit(R.S)
                    /\ last' = ObserveGenerate(m, R, memHigh, warmOk, call)
               ELSE UNCHANGED <<loaded_models, model_states,
                                conversation_history, clock, last>>
            /\ generation_results' =
                 IF failed THEN GenerationFailed(generation_results, p)
                 ELSE [generation_results EXCEPT
                          ![p] = Entry([i \in 1..k |-> i])]
            /\ run_obs' = IF failed
                          THEN [run_obs EXCEPT !.gen_failed = @ \cup {p}]
                          ELSE run_obs
            /\ driver' = (driver \/ ~failed)
    /\ completed_operations' =
         UpdateProgress(completed_operations, config_iterations)
    /\ UNCHANGED total_operations
    /\ cursor' = cursor + 1
    /\ UNCHANGED <<run_pc, mode, clients, built, config_iterations,
                   evaluation_results, shutdowns, run_error, run_outcome,
                   last_eval>>
    /\ UNCHANGED <<max_concurrent_models, genVars>>

\* run_evaluation_phase called with an empty dict (judging-only mode):
\* BenchmarkError("No generation results available for evaluation").
EvaluationRefused ==
    /\ run_pc = "evaluation" /\ mode = "judging-only"
    /\ run_error' = "evaluation"
    /\ run_obs' = [run_obs EXCEPT !.primary = "evaluation"]
    /\ run_pc' = "finally"
    /\ UNCHANGED <<mode, clients, built, config_iterations,
                   generation_results, evaluation_results, cursor,
                   shutdowns, driver, run_outcome, last_eval>>
    /\ UNCHANGED <<mgrVars, genVars>>
    /\ UNCHANGED <<total_operations, completed_operations>>

\* The sets of (judge, iteration) pairs whose provider answers that a run
\* meets: all, all but one, or none.
AnswerSets(asked) ==
    {asked, {}} \cup {asked \ {ji} : ji \in asked}

\* One round of run_evaluation_phase's loops for the pair at the cursor: a
\* pair without generation results is skipped; otherwise
\* evaluate_all_iterations and create_task_summary, whose exception (raised
\* for an empty list of evaluations too) makes the entry [].
EvaluatePair ==
    /\ run_pc = "evaluation" /\ mode # "judging-only"
    /\ cursor <= Len(Pairs)
    /\ LET p == Pairs[cursor]
           items == generation_results[p].items
           J == Judgings(JudgeModels, items)
           asked == {J[n] : n \in 1..Len(J)}
       IN IF items = <<>>
          THEN UNCHANGED <<evaluation_results, last_eval, run_obs,
                           completed_operations>>
          ELSE \E ok \in AnswerSets(asked), sumOk \in BOOLEAN :
                 LET records == EvaluateAll(JudgeModels, items, ok)
                     raised == records = <<>> \/ ~sumOk
                 IN /\ evaluation_results' =
                         [evaluation_results EXCEPT
                            ![p] = IF raised THEN Entry(<<>>)
                                   ELSE Entry(records)]
                    /\ last_eval' = [pair |-> p, asked |-> asked,
                                     ok |-> ok, records |-> records]
                    /\ run_obs' =
                         IF raised
                         THEN [run_obs EXCEPT !.eval_failed = @ \cup {p}]
                         ELSE run_obs
                    /\ completed_operations' =
                         UpdateProgress(completed_operations,
                                        Len(JudgeModels) * Len(items))
    /\ UNCHANGED total_operations
    /\ cursor' = cursor + 1
    /\ UNCHANGED <<run_pc, mode, clients, built, config_iterations,
                   generation_results, shutdowns, driver, run_error,
                   run_outcome>>
    /\ UNCHANGED <<mgrVars, genVars>>

\* The loops of a phase are exhausted: the phase stores its results and
\* returns, and run_full_pipeline goes on with what the mode asks for.
FinishPhase ==
    /\ run_pc \in {"generation", "evaluation"} /\ mode # "judging-only"
    /\ cursor > Len(Pairs)
    /\ run_pc' = IF run_pc = "evaluation" THEN "summary"
                 ELSE IF mode = "generation-only" THEN "cleanup"
                 ELSE "evaluation"
    /\ cursor' = 1
    /\ run_obs' = [run_obs EXCEPT !.phases_done = @ \cup {run_pc}]
    /\ UNCHANGED <<mode, clients, built, config_iterations,
                   generation_results, evaluation_results, shutdowns,
                   driver, run_error, run_outcome, last_eval>>
    /\ UNCHANGED <<mgrVars, genVars>>
    /\ UNCHANGED <<total_operations, completed_operations>>

\* create_benchmark_summary: it raises when the summary cannot be built or
\* written.
Summarise ==
    /\ run_pc = "summary"
    /\ \E ok \in BOOLEAN :
         /\ run_pc' = IF ok THEN "cleanup" ELSE "finally"
         /\ run_error' = IF ok THEN "" ELSE "summary"
         /\ run_obs' = [run_obs EXCEPT
                           !.primary = IF ok THEN "" ELSE "summary"]
    /\ UNCHANGED <<mode, clients, built, config_iterations,
                   generation_results, evaluation_results, cursor,
                   shutdowns, driver, run_outcome, last_eval>>
    /\ UNCHANGED <<mgrVars, genVars>>
    /\ UNCHANGED <<total_operations, completed_operations>>

\* The cleanup inside the try block (lines 439-443) and the writing of the
\* final results.
\*   quitOk  : driver.quit() returns
\*   writeOk : final_results.json and the summary report are written
CleanupInTry ==
    /\ run_pc = "cleanup"
    /\ \E quitOk \in BOOLEAN, writeOk \in BOOLEAN :
         LET RC == RendererCleanup(driver, quitOk)
         IN /\ Commit(CleanupAll(MgrState))
            /\ last' = [NoOp EXCEPT
                          !.op = "cleanup",
                          !.loadedBefore = loaded_models,
                          !.chatty = {n \in Models :
                                        conversation_history[n] # <<>>},
                          !.evicted = loaded_models]
            /\ driver' = RC.driver
            /\ shutdowns' = [manager |-> shutdowns.manager + 1,
                             renderer |-> shutdowns.renderer + 1]
            /\ run_error' = IF RC.ret = "raise" THEN "cleanup"
                            ELSE IF writeOk THEN "" ELSE "write"
            /\ run_obs' = [run_obs EXCEPT
                    !.cleanup_failed = @ \/ (driver /\ ~quitOk),
                    !.primary = IF RC.ret # "raise" /\ ~writeOk
                                THEN "write" ELSE @]
    /\ run_pc' = "finally"
    /\ UNCHANGED <<mode, clients, built, config_iterations,
                   generation_results, evaluation_results, cursor,
                   run_outcome, last_eval>>
    /\ UNCHANGED <<max_concurrent_models, genVars>>
    /\ UNCHANGED <<total_operations, completed_operations>>

\* The finally block (lines 468-477): cleanup of the components that exist,
\* an exception of which is logged; then the return value or the
\* BenchmarkError of the except branch reaches the caller.
FinallyCleanup ==
    /\ run_pc = "finally"
    /\ \E quitOk \in BOOLEAN :
         LET RC == IF "renderer" \in built
                   THEN RendererCleanup(driver, quitOk)
                   ELSE [driver |-> driver, ret |-> "ok"]
         IN /\ IF "manager" \in built
               THEN /\ Commit(CleanupAll(MgrState))
                    /\ last' = [NoOp EXCEPT
                          !.op = "cleanup",
                          !.loadedBefore = loaded_models,
                          !.chatty = {n \in Models :
                                        conversation_history[n] # <<>>},
                          !.evicted = loaded_models]
               ELSE UNCHANGED <<loaded_models, model_states,
                                conversation_history, clock, last>>
            /\ driver' = RC.driver
            /\ run_obs' = [run_obs EXCEPT
                    !.cleanup_failed =
                        @ \/ ("renderer" \in built /\ driver /\ ~quitOk)]
    /\ shutdowns' = FinallyShutdowns(built, shutdowns)
    /\ run_outcome' = IF run_error = "" THEN "returned" ELSE run_error
    /\ run_pc' = "exited"
    /\ UNCHANGED <<mode, clients, built, config_iterations,
                   generation_results, evaluation_results, cursor,
                   run_error, last_eval>>
    /\ UNCHANGED <<max_concurrent_models, genVars>>
    /\ UNCHANGED <<total_operations, completed_operations>>

\* ----------------------------------------------------------- arithmetic
\* Python's float arithmetic on scores is modelled by exact fractions
\* <<n, d>> in lowest terms with d > 0.
RECURSIVE Gcd(_, _)
Gcd(a, b) == IF b = 0 THEN a ELSE Gcd(b, a % b)

Frac(n, d) ==
    LET g == Gcd(IF n < 0 THEN -n ELSE n, d)
    IN <<n \div g, d \div g>>

Whole(n) == <<n, 1>>
Plus(a, b) == Frac(a[1] * b[2] + b[1] * a[2], a[2] * b[2])
Minus(a, b) == Frac(a[1] * b[2] - b[1] * a[2], a[2] * b[2])
Times(a, b) == Frac(a[1] * b[1], a[2] * b[2])
Over(a, n) == Frac(a[1], a[2] * n)
Leq(a, b) == a[1] * b[2] <= b[1] * a[2]

RECURSIVE SumOf(_)
\* sum(xs)
SumOf(xs) == IF xs = <<>> THEN Whole(0) ELSE Plus(Head(xs), SumOf(Tail(xs)))

\* Variant: the sum divided with integer division.
MeanFloored(xs) == Whole((SumOf(xs)[1] \div SumOf(xs)[2]) \div Len(xs))

\* sum(xs) / len(xs)
Mean(xs) == Over(SumOf(xs), Len(xs))

\* ------------------------------------------------------- Judge (a unit)
\* A Judge is constructed with a manager object, and evaluate_html reaches
\* the judge through that object's client attribute.  An instance of
\* ModelManager has no such attribute, and every evaluate_html call on it
\* raises; the rest of evaluate_html runs when the object has one.
CriteriaNames ==
    <<"visual_appeal", "functionality", "responsiveness", "code_quality",
      "task_completion">>

\* What the judge's provider does with a request: "error" (the call or the
\* parsing of its answer fails), "omitted" (an answer without overall_score,
\* a required field of EvaluationResult, which fails validation) or "scored"
\* (a valid EvaluationResult with the given overall_score and the five
\* criterion scores in the order of CriteriaNames).
JudgeAnswers ==
    { [kind |-> "error", overall_score |-> Whole(0),
       scores |-> <<0, 0, 0, 0, 0>>],
      [kind |-> "omitted", overall_score |-> Whole(0),
       scores |-> <<10, 8, 6, 4, 3>>],
      [kind |-> "scored", overall_score |-> Whole(0),
       scores |-> <<10, 8, 6, 4, 3>>],
      [kind |-> "scored", overall_score |-> Whole(7),
       scores |-> <<10, 8, 6, 4, 3>>] }

\* The generation results given to evaluate_all_iterations for a task: one
\* iteration generated without a renderer, or two rendered iterations.
ResultLists(t) ==
    LET r1(render) == Rendered(InitialResult(t, <<"r">>, <<"<html>", "d1">>),
                               render)
        r2(render) == Rendered(ImproveResult(t, 2, <<"r">>, <<"<html>", "d2">>,
                                             r1(render).llm_screenshot_path),
                               render)
    IN {<<r1("none")>>, <<r1("llm"), r2("llm")>>}

NoJudging ==
    [judge_model |-> "", task_name |-> "", sent |-> FALSE, ret |-> "",
     answer |-> [kind |-> "error", overall_score |-> Whole(0),
                 scores |-> <<0, 0, 0, 0, 0>>],
     overall_score |-> Whole(0), saved |-> FALSE]

\* State before a Judge exists.
JudgeNone ==
    /\ jd_pc = "none"
    /\ manager_client = FALSE
    /\ jd_call = [target_model |-> "", task_name |-> "", items |-> <<>>]
    /\ jd_pos = 0
    /\ all_evaluations = <<>>
    /\ eval_files = {}
    /\ jd_sent = {}
    /\ last_judging = NoJudging
    /\ jd_calls = 0

\* Judge._create_evaluation_prompt: the rubric around the HTML code.
CreateEvaluationPrompt(html_content) ==
    [rubric |-> CriteriaNames, html |-> html_content]

\* Variant: the task name is part of the prompt.
JudgeRequestNamed(judge_model, task_name, html_content, screenshot_path) ==
    [model_name |-> judge_model,
     prompt |-> [rubric |-> CriteriaNames, html |-> html_content,
                 task |-> task_name],
     response_model |-> "EvaluationResult",
     image_path |-> screenshot_path,
     temperature |-> "config.temperature"]

\* The arguments of the generate_structured call of evaluate_html
\* (lines 80-89).
JudgeRequest(judge_model, task_name, html_content, screenshot_path) ==
    [model_name |-> judge_model,
     prompt |-> CreateEvaluationPrompt(html_content),
     response_model |-> "EvaluationResult",
     image_path |-> screenshot_path,
     temperature |-> "config.temperature"]

\* Variant: the judge's own overall score is always kept.
OverallScoreKept(answer) == answer.overall_score

\* The overall score of the record (lines 96-109): the mean of the five
\* criterion scores when the judge's overall score is 0.
OverallScore(answer) ==
    IF answer.overall_score = Whole(0)
    THEN Mean([c \in 1..Len(CriteriaNames) |-> Whole(answer.scores[c])])
    ELSE answer.overall_score

\* result.get("llm_screenshot_path") or result.get("screenshot_path")
ScreenshotOf(result) ==
    IF result.llm_screenshot_path # NoShot
    THEN result.llm_screenshot_path
    ELSE result.screenshot_path

\* Judge.evaluate_html on a manager object that has a client attribute or
\* not: whether a request is sent, and the record returned or the
\* EvaluationError raised.
EvaluateHtmlCall(hasClient, judge_model, target_model, task_name, result, answer) ==
    [sent |-> hasClient,
     request |-> JudgeRequest(judge_model, task_name, result.html_content,
                              ScreenshotOf(result)),
     ret |-> IF hasClient /\ answer.kind = "scored" THEN "record"
             ELSE "raise",
     record |-> [judge_model |-> judge_model,
                 target_model |-> target_model,
                 task_name |-> task_name,
                 iteration |-> result.iteration,
                 overall_score |-> OverallScore(answer),
                 scores |-> answer.scores]]

\* The evaluation file of a record (lines 185-207).
EvaluationFile(record) ==
    <<record.target_model, record.task_name, record.judge_model,
      record.iteration>>

\* Judge(model_manager, config, output_dir)
NewJudge ==
    /\ jd_pc = "none"
    /\ jd_pc' = "idle"
    /\ manager_client' \in BOOLEAN
    /\ UNCHANGED <<jd_call, jd_pos, all_evaluations, eval_files, jd_sent,
                   last_judging, jd_calls>>

\* A call evaluate_all_iterations(JudgeModels, "A", t, results) for the
\* next task, up to the loops.
EvaluateAllStart ==
    /\ jd_pc \in {"idle", "returned"}
    /\ jd_calls < Len(PipelineTasks)
    /\ \E rs \in ResultLists(PipelineTasks[jd_calls + 1]) :
         jd_call' = [target_model |-> "A",
                     task_name |-> PipelineTasks[jd_calls + 1],
                     items |-> rs]
    /\ jd_pc' = "looping"
    /\ jd_pos' = 1
    /\ all_evaluations' = <<>>
    /\ jd_calls' = jd_calls + 1
    /\ UNCHANGED <<manager_client, eval_files, jd_sent, last_judging>>

\* One round of evaluate_all_iterations' loops (lines 167-216): the record
\* of a successful evaluate_html is appended, then its file is written; an
\* exception of either step is logged and the loop goes on.
\*   saveOk : the evaluation file can be created and written
EvaluateNext ==
    /\ jd_pc = "looping"
    /\ jd_pos <= Len(Judgings(JudgeModels, jd_call.items))
    /\ \E answer \in JudgeAnswers, saveOk \in BOOLEAN :
         LET ji == Judgings(JudgeModels, jd_call.items)[jd_pos]
             E == EvaluateHtmlCall(manager_client, ji[1],
                                   jd_call.target_model, jd_call.task_name,
                                   ji[2], answer)
         IN /\ ~manager_client => answer.kind = "error"
            /\ E.ret = "raise" => saveOk
            /\ all_evaluations' = IF E.ret = "record"
                                  THEN Append(all_evaluations, E.record)
                                  ELSE all_evaluations
            /\ eval_files' = IF E.ret = "record" /\ saveOk
                             THEN eval_files \cup {EvaluationFile(E.record)}
                             ELSE eval_files
            /\ jd_sent' = IF E.sent
                          THEN jd_sent \cup
                                 {[task_name |-> jd_call.task_name,
                                   html_content |-> ji[2].html_content,
                                   screenshot_path |-> ScreenshotOf(ji[2]),
                                   request |-> E.request]}
                          ELSE jd_sent
            /\ last_judging' =
                 [judge_model |-> ji[1], task_name |-> jd_call.task_name,
                  sent |-> E.sent, ret |-> E.ret, answer |-> answer,
                  overall_score |-> E.record.overall_score,
                  saved |-> E.ret = "record" /\ saveOk]
    /\ jd_pos' = jd_pos + 1
    /\ UNCHANGED <<jd_pc, manager_client, jd_call, jd_calls>>

\* The loops are exhausted: all_evaluations is returned.
EvaluateAllReturn ==
    /\ jd_pc = "looping"
    /\ jd_pos > Len(Judgings(JudgeModels, jd_call.items))
    /\ jd_pc' = "returned"
    /\ UNCHANGED <<manager_client, jd_call, jd_pos, all_evaluations,
                   eval_files, jd_sent, last_judging, jd_calls>>

\* State before create_task_summary is called.
SummaryIdle ==
    /\ sm_pc = "idle"
    /\ evaluations = <<>>
    /\ summary = <<>>

\* ------------------------------- Judge.create_task_summary (a unit)
\* The inputs of the summary: the judges of a panel, the overall scores they
\* give, and lists of records in the order evaluate_all_iterations appends
\* them (judge by judge, each judge iteration by iteration).  scores[i] holds
\* the overall scores of iteration i in ascending order, given by the first
\* judges of the panel; the other judges failed on that iteration.  A list
\* holds at most MaxRecords records.  Suggestion strings are numbered; a
\* plan gives the n-th record of the list its improvement_suggestions:
\* none, the same ones with a repetition, ones shared with the neighbouring
\* records, or six of its own.
SummaryJudges == <<"J1", "J2", "J3">>

\* The cap of priority_improvements (line 352).
PriorityCap == 10
ScoreSet == {0, 5, 6, 8, 9, 10}
Evaluated == {1, 2}

SortedScores ==
    {s \in UNION {[1..n -> ScoreSet] : n \in 0..Len(SummaryJudges)} :
        \A j \in 1..(Len(s) - 1) : s[j] <= s[j + 1]}

SuggestionPlans == {"none", "same", "shared", "own"}

Suggestions(plan, n) ==
    IF plan = "none" THEN <<>>
    ELSE IF plan = "same" THEN <<1, 2, 1>>
    ELSE IF plan = "shared" THEN <<n + 1, n, 1>>
    ELSE [k \in 1..6 |-> 6 * (n - 1) + k]

EvaluationsOf(scores, plan) ==
    LET K == Len(scores)
        slots == [n \in 1..(Len(SummaryJudges) * K) |->
                     <<((n - 1) \div K) + 1, ((n - 1) % K) + 1>>]
        made == SelectSeq(slots, LAMBDA js : js[1] <= Len(scores[js[2]]))
    IN [n \in 1..Len(made) |->
           [judge_model |-> SummaryJudges[made[n][1]],
            iteration |-> made[n][2],
            overall_score |-> Whole(scores[made[n][2]][made[n][1]]),
            improvement_suggestions |-> Suggestions(plan, n)]]

\* evaluations_by_iteration[i] (lines 242-247)
ByIteration(evs, i) == SelectSeq(evs, LAMBDA e : e.iteration = i)

\* evaluations_by_iteration.keys()
IterationKeys(evs) == {evs[n].iteration : n \in 1..Len(evs)}

RECURSIVE Sorted(_)
\* sorted(keys)
Sorted(S) ==
    IF S = {} THEN <<>>
    ELSE <<MinOf(S)>> \o Sorted(S \ {MinOf(S)})

\* [e.overall_score for e in iter_evaluations]
Overalls(es) == [n \in 1..Len(es) |-> es[n].overall_score]

\* score_progression (lines 257-263)
ScoreProgression(evs) ==
    LET ks == Sorted(IterationKeys(evs))
    IN [n \in 1..Len(ks) |-> Mean(Overalls(ByIteration(evs, ks[n])))]

\* score_progression.index(max(score_progression)) + 1
BestIteration(p) ==
    MinOf({n \in 1..Len(p) : \A k \in 1..Len(p) : Leq(p[k], p[n])})

\* score_progression.index(min(score_progression)) + 1
WorstIteration(p) ==
    MinOf({n \in 1..Len(p) : \A k \in 1..Len(p) : Leq(p[n], p[k])})

\* Variant: the sample variance, divided by len - 1.
VarianceOfSample(xs) ==
    Over(SumOf([n \in 1..Len(xs) |->
                  Times(Minus(xs[n], Mean(xs)), Minus(xs[n], Mean(xs)))]),
         Len(xs) - 1)

\* sum((s - mean) ** 2 for s in scores) / len(scores)
Variance(xs) ==
    Over(SumOf([n \in 1..Len(xs) |->
                  Times(Minus(xs[n], Mean(xs)), Minus(xs[n], Mean(xs)))]),
         Len(xs))

\* max(0, 1 - variance / 25)
Agreement(xs) ==
    LET a == Minus(Whole(1), Over(Variance(xs), 25))
    IN IF Leq(a, Whole(0)) THEN Whole(0) ELSE a

\* judge_agreement_score (lines 276-290): the mean of the agreements of the
\* iterations that have more than one record, 1.0 when there is none.  The
\* exact sum does not depend on the order of the keys.
JudgeAgreementScore(evs) ==
    LET ks == Sorted(IterationKeys(evs))
        multi == SelectSeq(ks, LAMBDA i : Len(ByIteration(evs, i)) > 1)
    IN IF multi = <<>> THEN Whole(1)
       ELSE Mean([n \in 1..Len(multi) |->
                     Agreement(Overalls(ByIteration(evs, multi[n])))])

\* overall_improvement (lines 310-314)
OverallImprovement(p) ==
    IF Len(p) > 1 THEN Minus(p[Len(p)], p[1]) ELSE Whole(0)

RECURSIVE Extended(_)
\* priority_improvements after the extend loop (lines 346-349).
Extended(es) ==
    IF es = <<>> THEN <<>>
    ELSE Head(es).improvement_suggestions \o Extended(Tail(es))

RECURSIVE FromKeys(_)
\* list(dict.fromkeys(xs)): the first occurrence of each element, in order.
FromKeys(xs) ==
    IF xs = <<>> THEN <<>>
    ELSE LET d == FromKeys(SubSeq(xs, 1, Len(xs) - 1))
         IN IF \E k \in 1..Len(d) : d[k] = xs[Len(xs)] THEN d
            ELSE Append(d, xs[Len(xs)])

\* The slice [:PriorityCap].
Capped(xs) ==
    SubSeq(xs, 1, IF Len(xs) < PriorityCap THEN Len(xs) ELSE PriorityCap)

\* Variant: the suggestions of the records of every iteration.
PriorityImprovementsOfAll(evs) == Capped(FromKeys(Extended(evs)))

\* priority_improvements (lines 342-352): the suggestions of the records of
\* the highest iteration key.
PriorityImprovements(evs) ==
    Capped(FromKeys(Extended(ByIteration(evs, MaxOf(IterationKeys(evs))))))

\* The TaskEvaluationSummary built at lines 354-372; the fields about the
\* criteria and the free-text fields are left out.
TaskSummary(evs) ==
    LET p == ScoreProgression(evs)
    IN [total_iterations |-> Cardinality(IterationKeys(evs)),
        total_evaluations |-> Len(evs),
        score_progression |-> p,
        final_overall_score |-> p[Len(p)],
        best_iteration |-> BestIteration(p),
        worst_iteration |-> WorstIteration(p),
        judge_agreement_score |-> JudgeAgreementScore(evs),
        overall_improvement |-> OverallImprovement(p),
        priority_improvements |-> PriorityImprovements(evs)]

\* A call create_task_summary("A", t, evaluations): EvaluationError for an
\* empty list or when the summary file cannot be written.
CreateTaskSummary ==
    /\ sm_pc = "idle"
    /\ \E scores \in [Evaluated -> SortedScores], plan \in SuggestionPlans,
          saveOk \in BOOLEAN :
         LET evs == EvaluationsOf(scores, plan)
         IN /\ Len(scores[1]) + Len(scores[2]) <= MaxRecords
            /\ evs = <<>> => saveOk
            /\ evaluations' = evs
            /\ IF evs = <<>> \/ ~saveOk
               THEN sm_pc' = "raised" /\ summary' = <<>>
               ELSE sm_pc' = "returned" /\ summary' = TaskSummary(evs)

\* ------------------------------ HTMLProcessor.extract_html (a unit)
\* The responses given to extract_html: every text of at most MaxLen tokens,
\* and the texts that wrap a minimal document in a labelled fence between
\* two lines of prose.
Tokens ==
    {"nl", "[fence-html]", "[fence]", "<html>", "</html>", "<div>", "</div>",
     "a"}

MinimalDocuments ==
    { <<"<html>", "a", "</html>">>,
      <<"<html>", "nl", "a", "nl", "</html>">>,
      <<"<html>", "<div>", "a", "</div>", "</html>">> }

Wrapped(doc) ==
    <<"prose", "nl", "[fence-html]", "nl">> \o doc
        \o <<"nl", "[fence]", "nl", "prose">>

ResponseTexts ==
    UNION {[1..n -> Tokens] : n \in 0..MaxLen}
        \cup {Wrapped(d) : d \in MinimalDocuments}

\* State before extract_html is called.
ExtractIdle ==
    /\ ex_pc = "idle"
    /\ response_text = <<>>
    /\ html_out = <<>>

\* A call extract_html(text).
ExtractCall ==
    /\ ex_pc = "idle"
    /\ \E t \in ResponseTexts :
         /\ response_text' = t
         /\ html_out' = ExtractHtml(t)
    /\ ex_pc' = "returned"

\* ------------- ProjectGenerator and NodeProjectRenderer (as units)
\* A response is a list of fenced blocks between prose.  A block has the
\* text of its opening fence line after the backquotes (label, with a
\* leading "filename:" already removed as lines 455-457 do), its content,
\* and the path of a "File: <path>" line right before the fence, if any.
\* Every fence stands on a line of its own; contents are longer than two
\* characters.
ProjectBlocks ==
    { [file_line |-> "", label |-> "", content |-> "code"],
      [file_line |-> "", label |-> "jsx", content |-> "code"],
      [file_line |-> "", label |-> "src/App.js", content |-> "app1"],
      [file_line |-> "", label |-> "src/App.js", content |-> "app2"],
      [file_line |-> "", label |-> "src/App.js", content |-> ""],
      [file_line |-> "", label |-> "README.md", content |-> "readme"],
      [file_line |-> "src/main.js", label |-> "", content |-> "main"] }

ProjectResponses == UNION {[1..n -> ProjectBlocks] : n \in 0..MaxBlocks}

\* The keys a mapping can have; a mapping gives "" to a path it has no
\* entry for (the code never stores an empty content).
Paths == {"src/App.js", "src/main.js", "README.md", ".gitignore", "jsx"}
NoFiles == [p \in Paths |-> ""]

\* not project_files
IsEmpty(files) == files = NoFiles

\* ProjectGenerator._is_valid_filename
IsValidFilename(filename) ==
    filename \in {"src/App.js", "src/main.js", "README.md", ".gitignore"}

\* The files of the framework's template that _validate_framework_files
\* adds when missing: those whose name contains package.json, .gitignore
\* or README.md (the react template has the last two).
CriticalTemplate ==
    [p \in {".gitignore", "README.md"} |-> "template"]

RECURSIVE MainPattern(_)
\* The loop over the matches of the main pattern (lines 448-466): every
\* block whose fence line has a text and whose content is not empty is
\* stored under that text; a later block overwrites an earlier one.
MainPattern(blocks) ==
    IF blocks = <<>> THEN NoFiles
    ELSE LET b == blocks[Len(blocks)]
             before == MainPattern(SubSeq(blocks, 1, Len(blocks) - 1))
         IN IF b.label # "" /\ b.content # ""
            THEN [before EXCEPT ![b.label] = b.content]
            ELSE before

RECURSIVE AltPatterns(_)
\* The alternative patterns (lines 468-484), tried when the main pattern
\* stored nothing.  The matches of the first are plain strings, which pass
\* len(match) == 2 only when two characters long; the second takes the
\* blocks that follow a File: line with a valid filename.
AltPatterns(blocks) ==
    IF blocks = <<>> THEN NoFiles
    ELSE LET b == blocks[Len(blocks)]
             before == AltPatterns(SubSeq(blocks, 1, Len(blocks) - 1))
         IN IF b.file_line # "" /\ b.content # ""
               /\ IsValidFilename(b.file_line)
            THEN [before EXCEPT ![b.file_line] = b.content]
            ELSE before

\* ProjectGenerator._validate_framework_files
ValidateFrameworkFiles(files) ==
    [p \in Paths |->
        IF files[p] = "" /\ p \in DOMAIN CriticalTemplate
        THEN CriticalTemplate[p] ELSE files[p]]

\* ProjectGenerator._extract_project_files
ExtractProjectFiles(response) ==
    LET main == MainPattern(response)
    IN ValidateFrameworkFiles(IF IsEmpty(main) THEN AltPatterns(response)
                              ELSE main)

NoProjectObs ==
    [op |-> "none", got |-> FALSE, response |-> <<>>, extracted |-> NoFiles,
     previous |-> NoFiles, ret |-> ""]
NoRenderObs == [started |-> {}, failed_at |-> "", success |-> FALSE]

\* State after ProjectGenerator.__init__ and NodeProjectRenderer.__init__.
ProjectIdle ==
    /\ pj_iteration = 0
    /\ project_files = NoFiles
    /\ pj_obs = NoProjectObs
    /\ to_render = FALSE
    /\ renders = 0
    /\ active_servers = {}
    /\ running = {}
    /\ rd_obs = NoRenderObs

\* A call generate_initial_project(model, task, framework); the manager's
\* generate returns a response or raises.
GenerateInitialProject ==
    /\ pj_iteration = 0 /\ pj_obs.op = "none"
    /\ \E response \in ProjectResponses, callOk \in BOOLEAN :
         LET files == ExtractProjectFiles(response)
             obs == [NoProjectObs EXCEPT !.op = "initial"]
         IN IF ~callOk
            THEN /\ pj_obs' = [obs EXCEPT !.ret = "raise"]
                 /\ UNCHANGED <<pj_iteration, project_files, to_render>>
            ELSE IF IsEmpty(files)
            THEN /\ pj_obs' = [obs EXCEPT !.got = TRUE,
                                          !.response = response,
                                          !.extracted = files,
                                          !.ret = "raise"]
                 /\ UNCHANGED <<pj_iteration, project_files, to_render>>
            ELSE /\ pj_obs' = [obs EXCEPT !.got = TRUE,
                                          !.response = response,
                                          !.extracted = files,
                                          !.ret = "result"]
                 /\ pj_iteration' = 1
                 /\ project_files' = files
                 /\ to_render' = TRUE
    /\ UNCHANGED <<renders, active_servers, running, rd_obs>>

\* The project_files of improve_project's result (lines 140-147).
ImprovedFiles(files, previous_files) ==
    IF IsEmpty(files) THEN previous_files ELSE files

\* A call improve_project(model, task, framework, iteration,
\* previous_files, screenshot_path) with the files of the last result.
ImproveProject ==
    /\ pj_iteration >= 1 /\ pj_iteration < MaxIterations
    /\ ~to_render
    /\ \E response \in ProjectResponses, callOk \in BOOLEAN :
         LET files == ExtractProjectFiles(response)
             obs == [NoProjectObs EXCEPT !.op = "improve",
                                         !.previous = project_files]
         IN IF ~callOk
            THEN /\ pj_obs' = [obs EXCEPT !.ret = "raise"]
                 /\ UNCHANGED <<pj_iteration, project_files, to_render>>
            ELSE /\ pj_obs' = [obs EXCEPT !.got = TRUE,
                                          !.response = response,
                                          !.extracted = files,
                                          !.ret = "result"]
                 /\ pj_iteration' = pj_iteration + 1
                 /\ project_files' = ImprovedFiles(files, project_files)
                 /\ to_render' = TRUE
    /\ UNCHANGED <<renders, active_servers, running, rd_obs>>

\* WebRenderer defines no method named render_url (its methods are
\* render_html_file, render_html_content, capture_full_page_screenshot,
\* get_page_info, test_responsiveness and cleanup).
WebRendererHasRenderUrl == FALSE

\* ProjectManager.start_dev_server for process pid.
\*   start : "popen" (the framework cannot start the process), "timeout"
\*           (the process runs but _wait_for_server gives up) or "ok"
\* The process is appended to active_servers before the wait; on a timeout
\* the RuntimeError reaches the caller, which is not handed the process.
StartDevServer(servers, alive, pid, start) ==
    IF start = "popen"
    THEN [active_servers |-> servers, running |-> alive, ret |-> "raise",
          process |-> 0]
    ELSE [active_servers |-> servers \cup {pid},
          running |-> alive \cup {pid},
          ret |-> IF start = "ok" THEN "ok" ELSE "raise",
          process |-> IF start = "ok" THEN pid ELSE 0]

\* ProjectManager.stop_server: terminate, or kill, the process and remove
\* it from active_servers.
StopServer(servers, alive, pid) ==
    [active_servers |-> servers \ {pid}, running |-> alive \ {pid}]

\* NodeProjectRenderer.render_project.
\*   create  : create_project returns
\*   install : install_dependencies returns True
\*   capture : the screenshot would be captured
\* server_process is 0 for None.
RenderProject(servers, alive, pid, create, install, start, capture) ==
    LET unchanged == [active_servers |-> servers, running |-> alive]
    IN IF ~create
       THEN [after |-> unchanged, started |-> {}, failed_at |-> "create",
             success |-> FALSE]
       ELSE IF ~install
       THEN [after |-> unchanged, started |-> {}, failed_at |-> "install",
             success |-> FALSE]
       ELSE LET D == StartDevServer(servers, alive, pid, start)
                server_process == D.process
                begun == D.running \ alive
            IN IF D.ret = "raise"
               THEN [after |-> IF server_process # 0
                               THEN StopServer(D.active_servers, D.running,
                                               server_process)
                               ELSE [active_servers |-> D.active_servers,
                                     running |-> D.running],
                     started |-> begun, failed_at |-> "start",
                     success |-> FALSE]
               ELSE IF ~WebRendererHasRenderUrl
               THEN [after |-> StopServer(D.active_servers, D.running,
                                          server_process),
                     started |-> begun, failed_at |-> "capture",
                     success |-> FALSE]
               ELSE [after |-> StopServer(D.active_servers, D.running,
                                          server_process),
                     started |-> begun,
                     failed_at |-> IF capture THEN "" ELSE "capture",
                     success |-> capture]

\* A call render_project for the last result.
RenderCall ==
    /\ to_render /\ renders < MaxIterations
    /\ \E create \in BOOLEAN, install \in BOOLEAN,
          start \in {"popen", "timeout", "ok"}, capture \in BOOLEAN :
         /\ ~create => (install /\ start = "ok")
         /\ ~(create /\ install) => start = "ok"
         /\ (start # "ok" \/ ~create \/ ~install
               \/ ~WebRendererHasRenderUrl) => capture
         /\ LET R == RenderProject(active_servers, running, renders + 1,
                                   create, install, start, capture)
            IN /\ active_servers' = R.after.active_servers
               /\ running' = R.after.running
               /\ rd_obs' = [started |-> R.started,
                             failed_at |-> R.failed_at,
                             success |-> R.success]
    /\ renders' = renders + 1
    /\ to_render' = FALSE
    /\ UNCHANGED <<pj_iteration, project_files, pj_obs>>

\* NodeProjectRenderer.cleanup: cleanup_all_servers stops every process of
\* active_servers.
NodeRendererCleanup ==
    /\ active_servers # {}
    /\ running' = running \ active_servers
    /\ active_servers' = {}
    /\ UNCHANGED <<pj_iteration, project_files, pj_obs, to_render, renders,
                   rd_obs>>

Init ==
    /\ MgrInit /\ GenIdle /\ RunIdle /\ JudgeNone /\ SummaryIdle
    /\ ExtractIdle /\ ProjectIdle

Next ==
    \/ (\E m \in Models : EnsureActive(m))
          /\ UNCHANGED <<genVars, runVars, unitVars>>
    \/ (\E m \in Models : Invoke(m))
          /\ UNCHANGED <<genVars, runVars, unitVars>>
    \/ (\E m \in Models : Release(m))
          /\ UNCHANGED <<genVars, runVars, unitVars>>
    \/ (\E m \in Models : ClearConversation(m))
          /\ UNCHANGED <<genVars, runVars, unitVars>>
    \/ Cleanup /\ UNCHANGED <<genVars, runVars, unitVars>>

Spec == Init /\ [][Next]_vars

NextGen ==
    \/ StartTask /\ UNCHANGED <<runVars, unitVars>>
    \/ InitialRound /\ UNCHANGED <<runVars, unitVars>>
    \/ ImproveRound /\ UNCHANGED <<runVars, unitVars>>
    \/ ReturnResults /\ UNCHANGED <<runVars, unitVars>>
    \/ RecordTaskResults /\ UNCHANGED <<runVars, unitVars>>

\* One model is in use: the pipeline's default max_concurrent_models.
InitGen == Init /\ max_concurrent_models = 1

SpecGen == InitGen /\ [][NextGen]_vars

NextRun ==
    \/ StartRun /\ UNCHANGED unitVars
    \/ MainGenerationOnly /\ UNCHANGED unitVars
    \/ MainEvaluationOnly /\ UNCHANGED unitVars
    \/ GeneratePair /\ UNCHANGED unitVars
    \/ EvaluationRefused /\ UNCHANGED unitVars
    \/ EvaluatePair /\ UNCHANGED unitVars
    \/ FinishPhase /\ UNCHANGED unitVars
    \/ Summarise /\ UNCHANGED unitVars
    \/ CleanupInTry /\ UNCHANGED unitVars
    \/ FinallyCleanup /\ UNCHANGED unitVars

SpecRun == InitGen /\ [][NextRun]_vars

NextJudge ==
    \/ NewJudge /\ UNCHANGED <<mgrVars, genVars, runVars, sumVars, exVars, projVars>>
    \/ EvaluateAllStart
          /\ UNCHANGED <<mgrVars, genVars, runVars, sumVars, exVars, projVars>>
    \/ EvaluateNext
          /\ UNCHANGED <<mgrVars, genVars, runVars, sumVars, exVars, projVars>>
    \/ EvaluateAllReturn
          /\ UNCHANGED <<mgrVars, genVars, runVars, sumVars, exVars, projVars>>

SpecJudge == InitGen /\ [][NextJudge]_vars

NextSummary ==
    CreateTaskSummary
        /\ UNCHANGED <<mgrVars, genVars, runVars, judgeVars, exVars, projVars>>

SpecSummary == InitGen /\ [][NextSummary]_vars

NextExtract ==
    ExtractCall
        /\ UNCHANGED <<mgrVars, genVars, runVars, judgeVars, sumVars,
                     projVars>>

SpecExtract == InitGen /\ [][NextExtract]_vars

NextProject ==
    \/ GenerateInitialProject
          /\ UNCHANGED <<mgrVars, genVars, runVars, judgeVars, sumVars,
                         exVars>>
    \/ ImproveProject
          /\ UNCHANGED <<mgrVars, genVars, runVars, judgeVars, sumVars,
                         exVars>>
    \/ RenderCall
          /\ UNCHANGED <<mgrVars, genVars, runVars, judgeVars, sumVars,
                         exVars>>
    \/ NodeRendererCleanup
          /\ UNCHANGED <<mgrVars, genVars, runVars, judgeVars, sumVars,
                         exVars>>

SpecProject == InitGen /\ [][NextProject]_vars

TypeOK ==
    /\ loaded_models \subseteq Models
    /\ clock >= 0

\* ------------------------------------------------------------ properties
Activation == last.op \in {"load_model", "generate"} /\ ~last.wasLoaded
FullBefore == Cardinality(last.loadedBefore) >= max_concurrent_models

\* C1: after any sequence of load_model, generate, unload_model and cleanup
\* calls, failed ones included, the number of loaded models never exceeds
\* max_concurrent_models.
C1_CapacityRespected ==
    Cardinality(loaded_models) <= max_concurrent_models

\* An activation at capacity that evicted a model and filled the set again.
C1_Witness ==
    /\ Activation /\ FullBefore
    /\ last.ret \in {"true", "response"}
    /\ max_concurrent_models >= 2
    /\ Cardinality(loaded_models) = max_concurrent_models

\* The concrete case of C2: capacity 2, A activated before B, then C.
AbcCase ==
    /\ max_concurrent_models = 2
    /\ last.op = "load_model" /\ last.model = "C" /\ last.ret = "true"
    /\ last.loadedBefore = {"A", "B"} /\ last.oldest = {"A"}

\* C2 as stated: when a model that is not active is activated while the
\* active set is at capacity, the model evicted is the active model with the
\* oldest last_used (and no other); with capacity 2, activating A, B, C
\* evicts A and leaves exactly B and C.
C2_EvictsOnlyLru ==
    /\ (Activation /\ FullBefore) => last.evicted = last.oldest
    /\ AbcCase => loaded_models = {"B", "C"}

\* C2 amended: an activation at capacity evicts the active model with the
\* oldest last_used; it is the only model evicted unless memory usage is
\* above the threshold, in which case every active model except the most
\* recently used one is evicted as well (with a single active model, that
\* one); with capacity 2, activating A, B, C evicts A and leaves B and C.
C2_EvictsLru ==
    /\ (Activation /\ FullBefore) =>
          /\ last.oldest \subseteq last.evicted
          /\ ~last.memHigh => last.evicted = last.oldest
          /\ last.memHigh =>
               last.evicted = IF Cardinality(last.loadedBefore) = 1
                              THEN last.loadedBefore
                              ELSE last.loadedBefore \ last.newest
    /\ AbcCase => loaded_models = {"B", "C"}

C2_Witness == AbcCase /\ last.evicted = {"A"} /\ ~last.memHigh

\* C3: when a failed generate brings a model's error_count to max_retries,
\* the model is evicted and its error_count is reset to 0, and the next
\* generate on that model makes the warm-up call of a fresh activation
\* before the request is forwarded.
C3_BudgetEvictsAndResets ==
    /\ (last.op = "generate" /\ last.ret = "raise"
           /\ last.errPeak = max_retries) =>
          /\ last.model \notin loaded_models
          /\ ~model_states[last.model].loaded
          /\ model_states[last.model].error_count = 0
    /\ (last.op = "generate" /\ ~last.wasLoaded /\ last.forwarded) =>
          last.warmup

\* C4: error_count counts consecutive failures: a successful generate
\* resets it, so a failed generate that directly follows a successful
\* generate of the same model never force-evicts under a budget of 2 or more.
C4_CountsConsecutiveFailures ==
    /\ (last.op = "generate" /\ last.ret = "response") =>
          model_states[last.model].error_count = 0
    /\ (last.op = "generate" /\ last.forced /\ last.afterSuccess) =>
          max_retries <= 1

\* C5: every failed provider call made through generate, the warm-up call
\* or the forwarded call, is raised to the caller, whether or not it
\* triggers an eviction.
C5_FailuresRaised ==
    (last.op = "generate" /\ (last.callFailed \/ last.warmFailed)) =>
        last.ret = "raise"

\* A forwarded call failed without reaching the budget.
C5_Witness ==
    /\ last.op = "generate" /\ last.callFailed /\ ~last.forced
    /\ last.model \in loaded_models

\* C6: if the warm-up call of an activation fails, load_model raises and
\* the model is not loaded afterwards.
C6_WarmupFailureLeavesInactive ==
    (Activation /\ last.warmFailed) =>
        /\ last.ret = "raise"
        /\ last.model \notin loaded_models
        /\ ~model_states[last.model].loaded

\* A warm-up failure of load_model after an eviction made room.
C6_Witness ==
    /\ last.op = "load_model" /\ last.warmFailed
    /\ last.evicted # {}

Done == gen_pc \in {"returned", "raised"}
Numbered(rs) == \A i \in 1..Len(rs) : rs[i].iteration = i
Unparseable(round) == round.got /\ Extracted[round.resp] = None

\* C7 as stated: for any N >= 1, when every provider response is parseable,
\* generate_complete_task returns exactly N results numbered 1..N in order
\* (file writes taken to succeed).
C7_ExactlyN ==
    (Done /\ gen_obs.trouble \cap {"provider", "unparseable", "io"} = {}) =>
        /\ gen_pc = "returned"
        /\ Len(gen_ret) = iterations
        /\ Numbered(gen_ret)

\* C7 amended: for any N >= 1, when every provider call returns a parseable
\* response, the rendering of every iteration yields a screenshot and no
\* file write fails, generate_complete_task returns exactly N results
\* numbered 1..N in order.
C7_ExactlyNWhenRendered ==
    (Done /\ gen_obs.trouble = {}) =>
        /\ gen_pc = "returned"
        /\ Len(gen_ret) = iterations
        /\ Numbered(gen_ret)

C7_Witness ==
    /\ gen_pc = "returned" /\ gen_obs.trouble = {}
    /\ iterations >= 2 /\ Len(gen_ret) = iterations

\* C8: if extraction fails in a round k > 1 the task is not aborted, result
\* k exists, and its content is identical to that of result k-1.
C8_FallbackReusesPrevious ==
    \A k \in 2..Len(gen_obs.rounds) :
        (Unparseable(gen_obs.rounds[k]) /\ gen_obs.rounds[k].io # "meta") =>
            /\ gen_obs.cause # "extraction"
            /\ Len(results) >= k
            /\ results[k].html_content = results[k-1].html_content
            /\ results[k].raw_response = gen_obs.rounds[k].resp

\* Round 2 got prose only after a round 1 that extracted a document.
C8_Witness ==
    /\ Len(results) >= 2
    /\ Unparseable(gen_obs.rounds[2])
    /\ results[2].html_content = Extracted[results[1].raw_response]
    /\ results[2].html_content # None

HasFallbackFlag(r) ==
    "extraction_fallback" \in DOMAIN r /\ r.extraction_fallback
Reused(k) == k > 1 /\ Extracted[results[k].raw_response] = None

\* C9: a result carries the extraction-fallback flag exactly when its
\* content was reused from the previous iteration because extraction failed.
C9_FallbackFlagged ==
    \A k \in 1..Len(results) : HasFallbackFlag(results[k]) <=> Reused(k)

Unrendered(k) ==
    /\ k \in 1..Len(gen_obs.rounds)
    /\ gen_obs.rounds[k].got
    /\ gen_obs.rounds[k].io # "meta"
    /\ gen_obs.rounds[k].render \in {"fail", "exception"}
    /\ Len(results) >= k

\* C11: if rendering fails for iteration k < N, no request for iteration k+1
\* is sent, and what generate_complete_task returns is exactly the k results
\* of iterations 1..k.
C11_RenderFailureStops ==
    \A k \in 1..MaxIterations :
        (Unrendered(k) /\ k < iterations) =>
            /\ Len(gen_obs.rounds) = k
            /\ gen_pc = "returned" =>
                   (Len(gen_ret) = k /\ Numbered(gen_ret))

\* The turns of a history alternate, a user turn first.
Paired(h) ==
    /\ Len(h) % 2 = 0
    /\ \A i \in 1..Len(h) :
          h[i].role = IF i % 2 = 1 THEN "user" ELSE "assistant"

\* C16: after any sequence of generate calls, successful or failed, with or
\* without conversation history, and of clears, every model's conversation
\* history is empty or of even length, alternating user and assistant turns.
C16_HistoryPaired ==
    \A m \in Models : Paired(conversation_history[m])

\* A generate call with history that failed after the answer was stored.
C16_Witness ==
    /\ last.op = "generate" /\ last.callFailed
    /\ Len(conversation_history[last.model]) = 2

\* C17: whenever a model is evicted, by LRU eviction, memory pressure,
\* force-eviction after failures, unload_model or cleanup, its conversation
\* history is empty afterwards.
C17_EvictionClearsHistory ==
    \A m \in last.evicted : conversation_history[m] = <<>>

\* An activation evicted a model that had a conversation history.
C17_Witness ==
    /\ Activation
    /\ last.evicted \cap last.chatty # {}
    /\ last.model \notin last.evicted

\* C18: load_model on a model that is already loaded updates that model's
\* last_used (it is the most recently used model afterwards) and returns
\* without evicting any model and without a warm-up call.
C18_ActiveBumped ==
    (last.op = "load_model" /\ last.wasLoaded) =>
        /\ last.ret = "true"
        /\ last.evicted = {}
        /\ ~last.warmup
        /\ NewestLoaded = {last.model}

\* C19: when memory usage is above the threshold at the time a model is
\* activated, every loaded model except the most recently used one has been
\* unloaded before the warm-up call is made, whatever that call does.
C19_MemoryPressureEvicts ==
    (Activation /\ last.memHigh) =>
        /\ (last.loadedBefore \ last.newest) \subseteq last.evicted
        /\ (last.loadedBefore \ last.newest) \cap loaded_models = {}

\* Memory pressure below capacity, followed by a failed warm-up call.
C19_Witness ==
    /\ Activation /\ last.memHigh /\ ~FullBefore
    /\ Cardinality(last.loadedBefore) >= 2
    /\ last.warmFailed
    /\ last.evicted = last.loadedBefore \ last.newest

Exited == run_pc = "exited"

\* C13 as stated: on every exit of run_full_pipeline, normal or by
\* exception, the manager's cleanup and the renderer's cleanup have both
\* been called.
C13_BothShutDown ==
    Exited => (shutdowns.manager >= 1 /\ shutdowns.renderer >= 1)

\* C13 amended: on every exit of run_full_pipeline, normal or by exception,
\* cleanup has been called on the manager and on the renderer, each
\* provided it had been constructed when the run failed.
C13_BuiltShutDown ==
    Exited =>
        \A c \in {"manager", "renderer"} \cap built : shutdowns[c] >= 1

\* An exit by exception from the evaluation phase.
C13_Witness ==
    /\ Exited /\ run_outcome = "evaluation"
    /\ shutdowns.manager = 1 /\ shutdowns.renderer = 1

\* C14: a failing cleanup step never changes the outcome of a run: the run
\* returns when nothing but cleanup failed, and otherwise raises the error
\* that made it fail.
C14_CleanupNeverMasks ==
    Exited =>
        run_outcome = IF run_obs.primary = "" THEN "returned"
                      ELSE run_obs.primary

\* A full run returned although the driver could not be quit.
C14_Witness ==
    /\ Exited /\ run_obs.cleanup_failed
    /\ run_outcome = "returned" /\ mode = "full-pipeline"

FailuresRecorded ==
    /\ \A p \in run_obs.gen_failed : generation_results[p] = Entry(<<>>)
    /\ \A p \in run_obs.eval_failed : evaluation_results[p] = Entry(<<>>)

\* C15 as stated: a failure generating or evaluating a (model, task) pair
\* is recorded as an empty result for the pair, and after each phase every
\* configured pair has an entry in the phase's results.
C15_EveryPairHasEntry ==
    /\ FailuresRecorded
    /\ "generation" \in run_obs.phases_done =>
          \A p \in PairSet : generation_results[p].present
    /\ "evaluation" \in run_obs.phases_done =>
          \A p \in PairSet : evaluation_results[p].present

\* C15 amended: a failure generating or evaluating a pair is recorded as an
\* empty result for the pair; after the generation phase every configured
\* pair has an entry in the generation results, and after the evaluation
\* phase the pairs with an entry in the evaluation results are exactly
\* those whose generation result is not empty.
C15_EveryGeneratedPairHasEntry ==
    /\ FailuresRecorded
    /\ "generation" \in run_obs.phases_done =>
          \A p \in PairSet : generation_results[p].present
    /\ "evaluation" \in run_obs.phases_done =>
          \A p \in PairSet :
              evaluation_results[p].present <=>
                  generation_results[p].items # <<>>

\* Both phases done, with a pair that failed in generation before a pair
\* that was generated and evaluated.
C15_Witness ==
    /\ "evaluation" \in run_obs.phases_done
    /\ Pairs[1] \in run_obs.gen_failed
    /\ evaluation_results[Pairs[2]].present
    /\ ~evaluation_results[Pairs[1]].present

\* C20: if the configured provider is unreachable when the manager is
\* constructed, startup fails and the run is aborted before any generation
\* or evaluation is attempted.
C20_UnreachableAborts ==
    (run_pc # "idle" /\ run_obs.unreachable) =>
        /\ run_pc \in {"finally", "exited"}
        /\ \A p \in PairSet : ~generation_results[p].present
        /\ Exited => run_outcome = "setup"

\* The image attached to the request of logged round k.
Attached(k) ==
    gen_obs.rounds[k].request[Len(gen_obs.rounds[k].request)].image

\* C21: the request of every round k > 1 carries the screenshot produced by
\* rendering iteration k-1 of the same task, never one of an earlier
\* iteration or of another task.
C21_ScreenshotOfPreviousIteration ==
    \A k \in 2..Len(gen_obs.rounds) :
        gen_obs.rounds[k].request # <<>> =>
            /\ Attached(k).task = task
            /\ Attached(k).iteration = k - 1

\* The turns of a request that the conversation history contributed.
Remembered(q) == SubSeq(q, 1, Len(q) - 1)

\* C22: round 1 of every task clears the model's conversation before its
\* request is sent, so no turn recorded during an earlier task is part of
\* any request of the current task: the request of round 1 is the task
\* prompt alone, and the request of round k > 1 holds, besides its own
\* message, only turns of rounds 2..k-1 of the current task.
C22_NoTurnOfEarlierTask ==
    \A k \in 1..Len(gen_obs.rounds) :
        LET q == gen_obs.rounds[k].request
        IN q # <<>> =>
             /\ k = 1 => q = <<[role |-> "user", prompt |-> TaskPrompt(task),
                                image |-> NoShot]>>
             /\ k > 1 => Len(Remembered(q)) <= 2 * (k - 2)
             /\ \A i \in 1..Len(q) :
                   q[i].role = "user" =>
                       /\ q[i].prompt.task = task
                       /\ q[i].prompt.iteration \in 2..k \cup {1}
                       /\ q[i].prompt.kind = "task" => k = 1

\* A second task sends the request of its third round, with the turns of
\* its second round, after the first task left turns in the conversation.
C22_Witness ==
    /\ tasks_started = 2
    /\ Len(gen_obs.rounds) >= 3
    /\ Len(gen_obs.rounds[3].request) = 3
    /\ gen_obs.rounds[3].got

\* C23: the request sent to a judge depends only on the artifact and its
\* screenshot: two evaluate_html calls to a judge with the same HTML and
\* the same screenshot send the same request, whatever the task name.
C23_BlindRequest ==
    \A a, b \in jd_sent :
        (/\ a.request.model_name = b.request.model_name
         /\ a.html_content = b.html_content
         /\ a.screenshot_path = b.screenshot_path) => a.request = b.request

\* Requests for the same artifact went out under two task names.
C23_Witness ==
    \E a, b \in jd_sent :
        /\ a.task_name # b.task_name
        /\ a.request.model_name = b.request.model_name
        /\ a.html_content = b.html_content
        /\ a.screenshot_path = b.screenshot_path

Iterations == {evaluations[n].iteration : n \in 1..Len(evaluations)}
RecordsAt(i) == {n \in 1..Len(evaluations) : evaluations[n].iteration = i}
Judged(i) == Cardinality(RecordsAt(i))

RECURSIVE Total(_)
Total(N) ==
    IF N = {} THEN 0
    ELSE LET n == CHOOSE x \in N : TRUE
         IN evaluations[n].overall_score[1] + Total(N \ {n})

RECURSIVE TotalOfSquares(_)
TotalOfSquares(N) ==
    IF N = {} THEN 0
    ELSE LET n == CHOOSE x \in N : TRUE
         IN evaluations[n].overall_score[1] * evaluations[n].overall_score[1]
              + TotalOfSquares(N \ {n})

Record(j, i, v) ==
    [judge_model |-> j, iteration |-> i, overall_score |-> Whole(v),
     improvement_suggestions |-> <<>>]

\* Two judges scoring iteration 1 as [6, 8] and iteration 2 as [9, 9].
ExampleRising ==
    <<Record("J1", 1, 6), Record("J1", 2, 9),
      Record("J2", 1, 8), Record("J2", 2, 9)>>

\* C26: score_progression has one entry per iteration that has records, in
\* ascending iteration order, each the mean overall_score of the records of
\* that iteration; for [6, 8] at iteration 1 and [9, 9] at iteration 2 it is
\* [7.0, 9.0] and overall_improvement is 2.0.
C26_ScoreProgression ==
    sm_pc = "returned" =>
        LET p == summary.score_progression
        IN /\ Len(p) = Cardinality(Iterations)
           /\ \A i \in Iterations :
                 LET n == Cardinality({j \in Iterations : j <= i})
                 IN p[n][1] * Judged(i) = p[n][2] * Total(RecordsAt(i))
           /\ (evaluations = ExampleRising) =>
                 (/\ p = <<Whole(7), Whole(9)>>
                  /\ summary.overall_improvement = Whole(2))

\* The summary of the example was built.
C26_Witness == sm_pc = "returned" /\ evaluations = ExampleRising

\* Iteration i has a mean overall score at least that of iteration j.
MeanAtLeast(i, j) ==
    Total(RecordsAt(i)) * Judged(j) >= Total(RecordsAt(j)) * Judged(i)

\* C27: best_iteration and worst_iteration are the iteration numbers of the
\* iterations with the highest and the lowest mean overall score, the
\* earliest one among iterations with equal means.
C27_BestWorstAreIterationNumbers ==
    sm_pc = "returned" =>
        LET b == summary.best_iteration
            w == summary.worst_iteration
        IN /\ b \in Iterations /\ w \in Iterations
           /\ \A j \in Iterations :
                 /\ MeanAtLeast(b, j)
                 /\ MeanAtLeast(j, b) => b <= j
                 /\ MeanAtLeast(j, w)
                 /\ MeanAtLeast(w, j) => w <= j

\* The agreement of iteration i as a fraction <<n, d>> (not in lowest
\* terms): max(0, 1 - variance / 25) with variance = (n * sum of squares -
\* square of the sum) / n^2 over the n overall scores of the iteration.
AgreementAt(i) ==
    LET n == Judged(i)
        spread == n * TotalOfSquares(RecordsAt(i))
                    - Total(RecordsAt(i)) * Total(RecordsAt(i))
    IN IF 25 * n * n - spread <= 0 THEN <<0, 1>>
       ELSE <<25 * n * n - spread, 25 * n * n>>

RECURSIVE AgreementTotal(_)
AgreementTotal(I) ==
    IF I = {} THEN <<0, 1>>
    ELSE LET i == CHOOSE x \in I : TRUE
             a == AgreementAt(i)
             r == AgreementTotal(I \ {i})
         IN <<a[1] * r[2] + r[1] * a[2], a[2] * r[2]>>

\* Three judges scoring an iteration [5, 5, 5]; two scoring it [0, 10].
ExampleUnanimous ==
    <<Record("J1", 1, 5), Record("J2", 1, 5), Record("J3", 1, 5)>>
ExampleSplit == <<Record("J1", 1, 0), Record("J2", 1, 10)>>

\* C28: judge_agreement_score is the mean, over the iterations that have at
\* least 2 records, of max(0, 1 - variance/25) of the iteration's overall
\* scores, and 1.0 when no iteration has 2 records; it lies in [0, 1], is
\* 1.0 for [5, 5, 5] and 0.0 for [0, 10].
C28_AgreementScore ==
    sm_pc = "returned" =>
        LET g == summary.judge_agreement_score
            multi == {i \in Iterations : Judged(i) >= 2}
            t == AgreementTotal(multi)
        IN /\ IF multi = {} THEN g = Whole(1)
              ELSE g[1] * Cardinality(multi) * t[2] = g[2] * t[1]
           /\ 0 <= g[1] /\ g[1] <= g[2]
           /\ (evaluations = ExampleUnanimous) => g = Whole(1)
           /\ (evaluations = ExampleSplit) => g = Whole(0)

\* The summary of the split example was built.
C28_Witness ==
    /\ sm_pc = "returned"
    /\ evaluations = ExampleSplit
    /\ summary.judge_agreement_score = Whole(0)

\* The four rules of the extraction contract applied to a stripped text t:
\* the labelled fenced block, the root-tag-delimited document span (bare in
\* the text or inside an unlabelled fence), the entire response if it is
\* well-formed, and the generic tag-pair span; None when the rule fails.
RuleOutput(rule, t) ==
    LET ms == PatternMatches(t)
    IN IF rule = "fence" THEN FirstValid(<<ms[1]>>, 1)
       ELSE IF rule = "root" THEN FirstValid(<<ms[2], ms[3], ms[4]>>, 1)
       ELSE IF rule = "whole"
       THEN IF IsValidHtml(t) THEN CleanHtml(t) ELSE None
       ELSE FirstValid(<<ms[5], ms[6], ms[7]>>, 1)

RECURSIVE ByPrecedence(_, _)
\* The output of the first rule of the list that does not fail.
ByPrecedence(rules, t) ==
    IF rules = <<>> THEN None
    ELSE IF RuleOutput(Head(rules), t) # None
    THEN RuleOutput(Head(rules), t)
    ELSE ByPrecedence(Tail(rules), t)

\* C29: extraction returns the output of the first rule, in the order
\* labelled fenced block, root-tag-delimited span, entire response, generic
\* tag-pair span, whose output passes the structural check.
C29_Precedence ==
    ex_pc = "returned" =>
        html_out = ByPrecedence(<<"fence", "root", "whole", "generic">>,
                                Strip(response_text))

\* C30: for a response that is prose around one labelled fenced block
\* holding a minimal valid document, extraction returns exactly the text
\* inside the fence.
C30_FencedContentUnchanged ==
    \A d \in MinimalDocuments :
        (ex_pc = "returned" /\ response_text = Wrapped(d)) => html_out = d

\* C39: if an activation fails at its warm-up call after another model was
\* evicted to make room for it, the evicted model is not restored: neither
\* model is active afterwards and the evicted model has no conversation
\* history.
C39_EvictedNotRestored ==
    (Activation /\ last.warmFailed /\ last.evicted # {}) =>
        /\ last.ret = "raise"
        /\ last.model \notin loaded_models
        /\ ~model_states[last.model].loaded
        /\ \A e \in last.evicted :
              /\ e \notin loaded_models
              /\ ~model_states[e].loaded
              /\ conversation_history[e] = <<>>

\* A failed warm-up of load_model that evicted a model which was holding a
\* conversation, at capacity and without memory pressure.
C39_Witness ==
    /\ last.op = "load_model" /\ last.warmFailed /\ ~last.memHigh
    /\ Cardinality(last.loadedBefore) = max_concurrent_models
    /\ last.evicted \cap last.chatty # {}

\* C40: after every manager operation, successful or failed, a model is in
\* loaded_models exactly when the loaded flag of its state is true.
C40_ActiveSetMatchesFlags ==
    \A m \in Models : m \in loaded_models <=> model_states[m].loaded

\* A failed generate call that left one model loaded and unloaded another.
C40_Witness ==
    /\ last.op = "generate" /\ last.ret = "raise"
    /\ last.evicted # {}
    /\ loaded_models # {}

\* C37: the request of each round k > 1 is sent with the conversation
\* holding the turns of all earlier rounds of the same task in order: the
\* prompt and the response of round 1, then those of rounds 2..k-1, then the
\* message of round k.
C37_ConversationHoldsEarlierRounds ==
    \A k \in 2..Len(gen_obs.rounds) :
        LET q == gen_obs.rounds[k].request
        IN q # <<>> =>
             /\ Len(q) = 2 * (k - 1) + 1
             /\ \A j \in 1..(k - 1) :
                   /\ q[2 * j - 1].role = "user"
                   /\ q[2 * j - 1].prompt =
                        (IF j = 1 THEN TaskPrompt(task)
                         ELSE ImprovementPrompt(task, j))
                   /\ q[2 * j].role = "assistant"
                   /\ q[2 * j].content = gen_obs.rounds[j].resp

\* C38: if the provider call of a round k > 1 fails, generate_complete_task
\* raises and returns none of the k-1 results it had produced, and
\* run_generation_phase records an empty list for the pair.
C38_LateProviderFailureLosesArtifacts ==
    (gen_obs.cause = "provider" /\ Len(gen_obs.rounds) > 1) =>
        /\ gen_pc = "raised"
        /\ gen_ret = <<>>
        /\ caller_pc = "recorded" => gen_results[task] = Entry(<<>>)

\* The provider call of round 3 failed after two results had been produced
\* and their documents saved, and the caller has recorded the outcome.
C38_Witness ==
    /\ caller_pc = "recorded"
    /\ gen_obs.cause = "provider"
    /\ Len(gen_obs.rounds) = 3
    /\ Len(results) = 2
    /\ html_files = {1, 2}

\* C33: during a run the completed counter never decreases and never
\* exceeds the total.
C33_ProgressMonotonicAndBounded ==
    /\ [](completed_operations <= total_operations)
    /\ [][completed_operations' >= completed_operations]_vars

\* The run has ended after its setup succeeded.
Ended ==
    /\ run_pc \in {"exited", "aborted"}
    /\ run_outcome # "setup"

\* C34: each execution mode runs exactly its phases: full mode finishes
\* generation for the whole matrix before any evaluation starts,
\* generation-only mode runs generation and no evaluation, and
\* evaluation-only mode runs evaluation and no generation.
C34_ModesRunTheirPhases ==
    /\ (mode = "full-pipeline" /\ run_pc = "evaluation") =>
            /\ "generation" \in run_obs.phases_done
            /\ \A p \in PairSet : generation_results[p].present
    /\ (mode = "full-pipeline" /\ run_pc = "generation") =>
            \A p \in PairSet : ~evaluation_results[p].present
    /\ mode = "generation-only" =>
            /\ "evaluation" \notin run_obs.phases_done
            /\ \A p \in PairSet : ~evaluation_results[p].present
            /\ Ended => "generation" \in run_obs.phases_done
    /\ mode = "judging-only" =>
            /\ "generation" \notin run_obs.phases_done
            /\ \A p \in PairSet : ~generation_results[p].present
            /\ Ended => "evaluation" \in run_obs.phases_done

\* The suggestions of the records of the highest-numbered iteration, and
\* the place of the first occurrence of each: the record's position in the
\* list, then the position within the record.
LastIteration == MaxOf(Iterations)
LastSuggestions ==
    UNION {{evaluations[n].improvement_suggestions[k] :
               k \in 1..Len(evaluations[n].improvement_suggestions)} :
           n \in RecordsAt(LastIteration)}
FirstPlace(x) ==
    LET n == MinOf({m \in RecordsAt(LastIteration) :
                     \E k \in 1..Len(evaluations[m].improvement_suggestions) :
                        evaluations[m].improvement_suggestions[k] = x})
    IN <<n, MinOf({k \in 1..Len(evaluations[n].improvement_suggestions) :
                      evaluations[n].improvement_suggestions[k] = x})>>
Earlier(a, b) == a[1] < b[1] \/ (a[1] = b[1] /\ a[2] < b[2])

\* C32: priority_improvements holds the distinct suggestions of the records
\* of the highest-numbered iteration only, in first-occurrence order, and
\* never more than 10 of them: a suggestion of that iteration is listed
\* exactly when fewer than 10 others occur before it.
C32_PriorityImprovements ==
    sm_pc = "returned" =>
        LET P == summary.priority_improvements
        IN /\ Len(P) <= 10
           /\ \A a, b \in 1..Len(P) : a < b =>
                  /\ P[a] # P[b]
                  /\ Earlier(FirstPlace(P[a]), FirstPlace(P[b]))
           /\ \A a \in 1..Len(P) : P[a] \in LastSuggestions
           /\ \A x \in LastSuggestions :
                  (\E a \in 1..Len(P) : P[a] = x) <=>
                      Cardinality({y \in LastSuggestions :
                          Earlier(FirstPlace(y), FirstPlace(x))}) < 10

\* Two records of the last iteration bring twelve distinct suggestions, and
\* records of an earlier iteration bring others: ten are listed.
C32_Witness ==
    /\ sm_pc = "returned"
    /\ Len(summary.priority_improvements) = 10
    /\ Cardinality(LastSuggestions) = 12
    /\ \E n \in 1..Len(evaluations) :
          /\ evaluations[n].iteration < LastIteration
          /\ evaluations[n].improvement_suggestions # <<>>

\* A path label: the text of a fence line, or of a File: line, that names a
\* file.
PathLabels(b) ==
    {l \in {b.label, b.file_line} : l # "" /\ IsValidFilename(l)}

\* C31: the mapping returned by the multi-file extraction is built only
\* from fenced blocks that carry a path label: every entry is the content
\* of a block of the response labelled with the entry's path.
C31_OnlyPathLabelledBlocks ==
    pj_obs.got =>
        \A p \in Paths :
            pj_obs.extracted[p] # "" =>
                \E n \in 1..Len(pj_obs.response) :
                    /\ p \in PathLabels(pj_obs.response[n])
                    /\ pj_obs.response[n].content = pj_obs.extracted[p]

\* The response has no block with a path label and a content.
NoFileBlock(response) ==
    \A n \in 1..Len(response) :
        PathLabels(response[n]) = {} \/ response[n].content = ""

\* C36: if the response of a round k > 1 contains no file block, the
\* round's mapping equals the previous iteration's mapping and the round
\* does not fail.
C36_NoFileBlockReusesPrevious ==
    (pj_obs.op = "improve" /\ pj_obs.got /\ NoFileBlock(pj_obs.response)) =>
        /\ pj_obs.ret = "result"
        /\ project_files = pj_obs.previous

\* C35: after a render of a multi-file project has failed, at whatever
\* step, no development-server process started for that render is still
\* running.
C35_NoServerLeftAfterFailure ==
    (rd_obs.failed_at # "") => rd_obs.started \cap running = {}
====
